---- MODULE Spec2Model ----
(***************************************************************************)
(* Model of the roborok orchestration core: the instance progress ledger   *)
(* (roborok/models.py), its build queue policy, and the build-order task   *)
(* handler (roborok/actions/actions.py).                                    *)
(*                                                                         *)
(* Conventions:                                                            *)
(*  - building_tasks is a sequence; the cursor current_task_index is       *)
(*    0-based as in the source, so the task at the cursor is               *)
(*    building_tasks[current_task_index + 1].                              *)
(*  - time.time() is the variable now, in whole seconds.                   *)
(*  - a confidence is an integer percentage (0.7 is 70).                   *)
(*  - task_manager is the TaskManager of roborok/tasks.py, context the     *)
(*    GameStateContext of roborok/state_machine/state_machine.py, and pc   *)
(*    the position of main() in its automation loop.                       *)
(***************************************************************************)
EXTENDS Integers, Sequences, FiniteSets, TLC

VARIABLES instance_state, now, call, task_manager, context, pc, state_file,
          tree_clearing

vars == <<instance_state, now, call, task_manager, context, pc, state_file,
         tree_clearing>>

\* what the operations of the ledger and the build-order handler leave alone
loop_vars == <<task_manager, context, pc, state_file, tree_clearing>>

(***************************************************************************)
(* Bounds of the model.                                                    *)
(***************************************************************************)
\* total number of skips recorded in one ledger
MaxSkips == 2

\* the instants at which the clock is sampled when the policy's operations
\* are called directly: 600 seconds are the 10 minutes of CooldownArgs
ClockInstants == {0, 600}

\* the instants at which the clock is sampled between invocations of the
\* build-order handler: 10 is the handler's cooldown read as seconds, 600 the
\* same number read as minutes
CycleInstants == {0, 10, 600}

\* cooldown arguments given to the policy's operations
CooldownArgs == {0, 10}

\* tasks in the task manager
MaxTasks == 3

\* the instants at which the task manager reads the clock
TaskInstants == {0, 4, 5}

(***************************************************************************)
(* models.py: BuildTask and the default build queue                        *)
(***************************************************************************)
\* Optional[float] = None of BuildTask.last_attempted
None == -1

BuildTask(type, building, detect_class) ==
    [type |-> type, building |-> building, detect_class |-> detect_class,
     completed |-> FALSE, skipped_attempts |-> 0, last_attempted |-> None]

default_build_queue ==
    << BuildTask("upgrade", "cityhall", "cityhall"),
       BuildTask("upgrade", "barracks", "barracks"),
       BuildTask("upgrade", "scout_camp", "scout_camp"),
       BuildTask("upgrade", "farm", "farm"),
       BuildTask("upgrade", "tavern", "tavern"),
       BuildTask("upgrade", "farm", "farm"),
       BuildTask("upgrade", "hospital", "hospital"),
       BuildTask("build_new", "lumber_mill", "economic:build_lumber_mill"),
       BuildTask("upgrade", "wall", "wall"),
       BuildTask("upgrade", "lumber_mill", "lumber_mill"),
       BuildTask("upgrade", "cityhall", "cityhall"),
       BuildTask("upgrade", "lumber_mill", "lumber_mill"),
       BuildTask("upgrade", "archery_range", "archery_range"),
       BuildTask("upgrade", "barracks", "barracks"),
       BuildTask("build_new", "stable", "military:build_stable"),
       BuildTask("upgrade", "scout_camp", "scout_camp"),
       BuildTask("upgrade", "hospital", "hospital"),
       BuildTask("upgrade", "lumber_mill", "lumber_mill") >>

(***************************************************************************)
(* models.py: InstanceState and the build queue policy                     *)
(***************************************************************************)
\* InstanceState(id, device_id): the dataclass defaults
InstanceState ==
    [tutorial_completed |-> FALSE, tutorial_upgrade_complete_clicked |-> FALSE,
     tutorial_final_arrow_clicked |-> FALSE,
     city_hall_level |-> 1, building_tasks |-> <<>>, current_task_index |-> 0]

\* faulty variant: installs the default queue over a non-empty one
initialize_build_queue_overwriting(s) ==
    [s EXCEPT !.building_tasks = default_build_queue, !.current_task_index = 0]

initialize_build_queue(s) ==
    IF s.building_tasks = <<>>
    THEN [s EXCEPT !.building_tasks = default_build_queue,
                   !.current_task_index = 0]
    ELSE s

\* the index of the current task, or None
get_current_task(s) ==
    IF s.building_tasks = <<>> \/ s.current_task_index >= Len(s.building_tasks)
    THEN None
    ELSE s.current_task_index

\* faulty variant: the range test admits the cursor at the end of the queue
mark_current_task_completed_off_by_one(s) ==
    IF s.building_tasks # <<>> /\ s.current_task_index <= Len(s.building_tasks)
    THEN [s EXCEPT !.building_tasks =
                      [k \in 1..Len(s.building_tasks) |->
                          IF k = s.current_task_index + 1
                          THEN [s.building_tasks[k] EXCEPT !.completed = TRUE]
                          ELSE s.building_tasks[k]],
                   !.current_task_index = @ + 1]
    ELSE s

\* faulty variant: marks the task before the cursor
mark_current_task_completed_wrong_task(s) ==
    IF s.building_tasks # <<>> /\ s.current_task_index < Len(s.building_tasks)
    THEN [s EXCEPT !.building_tasks =
                      [k \in 1..Len(s.building_tasks) |->
                          IF k = s.current_task_index
                          THEN [s.building_tasks[k] EXCEPT !.completed = TRUE]
                          ELSE s.building_tasks[k]],
                   !.current_task_index = @ + 1]
    ELSE s

\* faulty variant: completing a task reopens the one before it
mark_current_task_completed_reopening_previous(s) ==
    IF s.building_tasks # <<>> /\ s.current_task_index < Len(s.building_tasks)
    THEN [s EXCEPT !.building_tasks =
                      [k \in 1..Len(s.building_tasks) |->
                          IF k = s.current_task_index + 1
                          THEN [s.building_tasks[k] EXCEPT !.completed = TRUE]
                          ELSE IF k = s.current_task_index
                          THEN [s.building_tasks[k] EXCEPT !.completed = FALSE]
                          ELSE s.building_tasks[k]],
                   !.current_task_index = @ + 1]
    ELSE s

mark_current_task_completed(s) ==
    IF s.building_tasks # <<>> /\ s.current_task_index < Len(s.building_tasks)
    THEN [s EXCEPT !.building_tasks[s.current_task_index + 1].completed = TRUE,
                   !.current_task_index = @ + 1]
    ELSE s

\* faulty variant: the scan does not look at the completed flag
RECURSIVE reset_scan_ignoring_completed(_, _, _, _)
reset_scan_ignoring_completed(tasks, i, min_cooldown_sec, current_time) ==
    IF i >= Len(tasks)
    THEN Len(tasks)
    ELSE LET task == tasks[i + 1] IN
         IF /\ task.skipped_attempts > 0
            /\ task.last_attempted # None
            /\ current_time - task.last_attempted >= min_cooldown_sec
         THEN i
         ELSE reset_scan_ignoring_completed(tasks, i + 1, min_cooldown_sec, current_time)

\* the for loop of _reset_to_skipped_task from index i on: the index the
\* cursor is set to
RECURSIVE reset_scan(_, _, _, _)
reset_scan(tasks, i, min_cooldown_sec, current_time) ==
    IF i >= Len(tasks)
    THEN Len(tasks)
    ELSE LET task == tasks[i + 1] IN
         IF /\ ~task.completed
            /\ task.skipped_attempts > 0
            /\ task.last_attempted # None
            /\ current_time - task.last_attempted >= min_cooldown_sec
         THEN i
         ELSE reset_scan(tasks, i + 1, min_cooldown_sec, current_time)

_reset_to_skipped_task(s, cooldown_minutes, current_time) ==
    LET min_cooldown_sec == cooldown_minutes * 60 IN
    [s EXCEPT !.current_task_index =
                 reset_scan(s.building_tasks, 0, min_cooldown_sec, current_time)]

\* faulty variant: the end of the queue is not followed by the retry scan
skip_current_task_without_rescan(s, cooldown_minutes, current_time) ==
    IF s.building_tasks # <<>> /\ s.current_task_index < Len(s.building_tasks)
    THEN LET i == s.current_task_index IN
         [s EXCEPT !.building_tasks[i + 1].skipped_attempts = @ + 1,
                   !.building_tasks[i + 1].last_attempted = current_time,
                   !.current_task_index = i + 1]
    ELSE s

skip_current_task(s, cooldown_minutes, current_time) ==
    IF s.building_tasks # <<>> /\ s.current_task_index < Len(s.building_tasks)
    THEN LET i == s.current_task_index
             t == [s EXCEPT !.building_tasks[i + 1].skipped_attempts = @ + 1,
                            !.building_tasks[i + 1].last_attempted = current_time,
                            !.current_task_index = i + 1]
         IN IF t.current_task_index >= Len(t.building_tasks)
            THEN _reset_to_skipped_task(t, cooldown_minutes, current_time)
            ELSE t
    ELSE s

(***************************************************************************)
(* actions.py: the build-order handler                                     *)
(***************************************************************************)
Detection(class_name, confidence) ==
    [class_name |-> class_name, confidence |-> confidence]

\* Detection.is_confident with the default threshold 0.7
is_confident(det) == det.confidence >= 70

\* the first loop of handle_upgrade_building over the detections of the
\* cycle, from position i on: whether a builder's hut was found, and whether
\* a builders_hut_button was seen before the loop ended
RECURSIVE find_builders_hut(_, _, _)
find_builders_hut(detections, i, button) ==
    IF i > Len(detections)
    THEN [hut |-> FALSE, button |-> button]
    ELSE LET detection == detections[i] IN
         IF detection.class_name = "builders_hut" /\ is_confident(detection)
         THEN [hut |-> TRUE, button |-> button]
         ELSE IF detection.class_name = "builders_hut_idle" /\ is_confident(detection)
         THEN [hut |-> TRUE, button |-> button]
         ELSE IF detection.class_name = "builders_hut_button" /\ detection.confidence > 30
         THEN find_builders_hut(detections, i + 1, TRUE)
         ELSE find_builders_hut(detections, i + 1, button)

\* the loop over menu_detections: a builders_hut_button is in the menu
RECURSIVE find_builders_hut_button(_, _)
find_builders_hut_button(menu_detections, i) ==
    IF i > Len(menu_detections)
    THEN FALSE
    ELSE \/ /\ menu_detections[i].class_name = "builders_hut_button"
            /\ menu_detections[i].confidence > 30
         \/ find_builders_hut_button(menu_detections, i + 1)

\* the loop over queue_detections that counts the free builder queues, from
\* position i on with available_queues found so far
RECURSIVE count_available_queues(_, _, _)
count_available_queues(queue_detections, i, available_queues) ==
    IF i > Len(queue_detections)
    THEN available_queues
    ELSE LET det == queue_detections[i] IN
         IF det.class_name = "builders_hut_two_queues_available" /\ det.confidence > 60
         THEN 2
         ELSE IF det.class_name = "builders_hut_build_button" /\ det.confidence > 30
         THEN count_available_queues(queue_detections, i + 1, 1)
         ELSE count_available_queues(queue_detections, i + 1, available_queues)

\* a screen the vision collaborator returns: its detections, or the error
\* raised while it was fetched
Screen(detections) == [error |-> FALSE, detections |-> detections]

ScreenError == [error |-> TRUE, detections |-> <<>>]

\* the builder availability check of handle_upgrade_building, up to the
\* start of the dispatch loop: whether the handler goes on to the loop, the
\* free queues it counted and the queue screen it counted them on
builder_check(detections, hut_tap, menu, button_tap, queue) ==
    LET found == find_builders_hut(detections, 1, FALSE)
        stop == [proceed |-> FALSE, available_queues |-> 0, counted |-> FALSE,
                 queue_detections |-> <<>>]
        count == count_available_queues(queue.detections, 1, 0)
        check_queue ==
            IF ~button_tap THEN stop
            ELSE IF queue.error THEN stop
            ELSE [proceed |-> count # 0, available_queues |-> count,
                  counted |-> TRUE, queue_detections |-> queue.detections]
    IN IF found.hut
       THEN IF ~hut_tap THEN stop
            ELSE IF menu.error THEN stop
            ELSE IF ~find_builders_hut_button(menu.detections, 1) THEN stop
            ELSE check_queue
       ELSE IF found.button THEN check_queue
       ELSE stop

\* the parameters skip_current_task accepts by keyword
skip_current_task_keywords == {"cooldown_minutes"}

\* a call skip_current_task(keyword=value): Python raises TypeError for a
\* keyword the method does not have, before the body runs
call_skip_current_task(s, keyword, value, current_time) ==
    IF keyword \in skip_current_task_keywords
    THEN [raised |-> FALSE, state |-> skip_current_task(s, value, current_time)]
    ELSE [raised |-> TRUE, state |-> s]

\* the keyword and the value handle_upgrade_building skips a failed task with
SkipKeyword == "cooldown_seconds"

SkipCooldown == 10

\* the cooldown handle_build_order rescans an exhausted queue with
RescanCooldown == 10

\* the outcomes of build_new_building and upgrade_building: True, False, or
\* an exception, which the loop catches and takes for False
ProcedureOutcomes == {"success", "fail", "raise"}

\* faulty variant: the building of the task is not looked at
is_city_hall_upgrade_any_building(current_task) ==
    current_task.type = "upgrade"

\* the test that guards the increment of city_hall_level
is_city_hall_upgrade(current_task) ==
    current_task.type = "upgrade" /\ current_task.building = "cityhall"

\* the while loop of handle_upgrade_building: outcomes[k] is the outcome of
\* the procedure of the k-th dispatched task; dispatched collects the index
\* and outcome of every task dispatched
RECURSIVE dispatch_loop(_, _, _, _, _, _, _)
dispatch_loop(s, tasks_processed, max_tasks, outcomes, task_success, dispatched, current_time) ==
    IF tasks_processed < max_tasks /\ s.current_task_index < Len(s.building_tasks)
    THEN LET i == get_current_task(s)
             current_task == s.building_tasks[i + 1]
             success == outcomes[tasks_processed + 1] = "success"
             done == Append(dispatched,
                            [index |-> i, outcome |-> outcomes[tasks_processed + 1]])
         IN IF success
            THEN LET marked == mark_current_task_completed(s)
                     levelled ==
                        IF is_city_hall_upgrade(current_task)
                        THEN [marked EXCEPT !.city_hall_level = @ + 1]
                        ELSE marked
                 IN dispatch_loop(levelled, tasks_processed + 1, max_tasks, outcomes,
                                  TRUE, done, current_time)
            ELSE LET skipped == call_skip_current_task(s, SkipKeyword, SkipCooldown,
                                                       current_time)
                 IN IF skipped.raised
                    THEN [state |-> s, ret |-> "TypeError", dispatched |-> done,
                          checked |-> TRUE]
                    ELSE dispatch_loop(skipped.state, tasks_processed + 1, max_tasks,
                                       outcomes, task_success, done, current_time)
    ELSE [state |-> s, ret |-> IF task_success THEN "True" ELSE "False",
          dispatched |-> dispatched, checked |-> TRUE]

\* faulty variant: two tasks whatever the number of free queues
max_tasks_for_always_two(available_queues) == 2

\* min(available_queues, 2)
max_tasks_for(available_queues) == IF available_queues < 2 THEN available_queues ELSE 2

handle_upgrade_building(s, game_view, check, outcomes, current_time) ==
    LET nothing == [state |-> s, ret |-> "False", dispatched |-> <<>>,
                    checked |-> FALSE]
    IN
    IF game_view # "city" THEN nothing
    ELSE IF s.current_task_index >= Len(s.building_tasks) THEN nothing
    ELSE IF get_current_task(s) = None THEN nothing
    ELSE IF ~check.proceed THEN [nothing EXCEPT !.checked = TRUE]
    ELSE dispatch_loop(s, 0, max_tasks_for(check.available_queues), outcomes,
                       FALSE, <<>>, current_time)

handle_build_order(s, game_view, check, outcomes, current_time) ==
    LET initialized == IF s.building_tasks = <<>> THEN initialize_build_queue(s) ELSE s
        at_end == initialized.current_task_index >= Len(initialized.building_tasks)
        rescanned == IF at_end
                     THEN _reset_to_skipped_task(initialized, RescanCooldown, current_time)
                     ELSE initialized
    IN IF rescanned.current_task_index >= Len(rescanned.building_tasks)
       THEN [state |-> rescanned, ret |-> "False", dispatched |-> <<>>,
             checked |-> FALSE]
       ELSE handle_upgrade_building(rescanned, game_view, check, outcomes, current_time)

\* the cursor handle_build_order hands to handle_upgrade_building
entry_index(s, current_time) ==
    LET initialized == IF s.building_tasks = <<>> THEN initialize_build_queue(s) ELSE s
    IN IF initialized.current_task_index >= Len(initialized.building_tasks)
       THEN _reset_to_skipped_task(initialized, RescanCooldown, current_time).current_task_index
       ELSE initialized.current_task_index

(***************************************************************************)
(* The task manager (roborok/tasks.py)                                     *)
(***************************************************************************)
\* datetime.min, the last_executed of a task that never ran: an instant
\* further in the past than any cooldown
datetime_min == -1000000

\* a Task; its handler is the one registered under its name
Task(name, priority, cooldown_sec) ==
    [name |-> name, priority |-> priority, cooldown_sec |-> cooldown_sec,
     last_executed |-> datetime_min]

\* TaskManager.__init__
TaskManager == [tasks |-> <<>>]

\* Task.is_on_cooldown
is_on_cooldown(task, current_time) ==
    current_time - task.last_executed < task.cooldown_sec

\* what a handler can do: return True, return False, raise
HandlerOutcomes == {"True", "False", "raise"}

\* faulty variant: the cooldown starts whatever the handler returned
execute_always_stamping(task, outcome, current_time) ==
    IF is_on_cooldown(task, current_time)
    THEN [task |-> task, invoked |-> FALSE, ret |-> "False"]
    ELSE IF outcome = "raise"
    THEN [task |-> task, invoked |-> TRUE, ret |-> "Exception"]
    ELSE [task |-> [task EXCEPT !.last_executed = current_time],
          invoked |-> TRUE, ret |-> outcome]

\* Task.execute, outcome being what the handler does if it is called
execute(task, outcome, current_time) ==
    IF is_on_cooldown(task, current_time)
    THEN [task |-> task, invoked |-> FALSE, ret |-> "False"]
    ELSE IF outcome = "raise"
    THEN [task |-> task, invoked |-> TRUE, ret |-> "Exception"]
    ELSE IF outcome = "True"
    THEN [task |-> [task EXCEPT !.last_executed = current_time],
          invoked |-> TRUE, ret |-> "True"]
    ELSE [task |-> task, invoked |-> TRUE, ret |-> "False"]

\* list.sort(key=priority, reverse=True): stable, so tasks of equal priority
\* keep their order; one insertion of the sort
RECURSIVE sort_insert(_, _)
sort_insert(sorted, task) ==
    IF sorted = <<>> THEN <<task>>
    ELSE IF sorted[Len(sorted)].priority >= task.priority
    THEN Append(sorted, task)
    ELSE Append(sort_insert(SubSeq(sorted, 1, Len(sorted) - 1), task),
                sorted[Len(sorted)])

RECURSIVE sort_by_priority(_, _)
sort_by_priority(list, n) ==
    IF n = 0 THEN <<>>
    ELSE sort_insert(sort_by_priority(list, n - 1), list[n])

\* faulty variant: the task is appended and the list is not sorted
add_task_unsorted(tm, task) ==
    [tm EXCEPT !.tasks = Append(tm.tasks, task)]

\* TaskManager.add_task
add_task(tm, task) ==
    LET appended == Append(tm.tasks, task)
    IN [tm EXCEPT !.tasks = sort_by_priority(appended, Len(appended))]

\* TaskManager.remove_task
remove_task(tm, task_name) ==
    LET kept == SelectSeq(tm.tasks, LAMBDA t : t.name # task_name)
    IN [tm |-> [tm EXCEPT !.tasks = kept], ret |-> Len(kept) < Len(tm.tasks)]

\* faulty variant: the scan goes on after a handler returned True
RECURSIVE execute_scan_not_stopping(_, _, _, _, _)
execute_scan_not_stopping(tm, i, outcomes, current_time, invoked) ==
    IF i > Len(tm.tasks)
    THEN [tm |-> tm, invoked |-> invoked,
          ret |-> IF \E k \in 1..Len(invoked) : invoked[k].outcome = "True"
                  THEN "True" ELSE "False"]
    ELSE IF is_on_cooldown(tm.tasks[i], current_time)
    THEN execute_scan_not_stopping(tm, i + 1, outcomes, current_time, invoked)
    ELSE LET task == tm.tasks[i]
             r == execute(task, outcomes[task.name], current_time)
             after == [tm EXCEPT !.tasks[i] = r.task]
             seen == IF r.invoked
                     THEN Append(invoked, [index |-> i, name |-> task.name,
                                           outcome |-> outcomes[task.name]])
                     ELSE invoked
         IN IF r.ret = "Exception"
            THEN [tm |-> after, invoked |-> seen, ret |-> "Exception"]
            ELSE execute_scan_not_stopping(after, i + 1, outcomes, current_time, seen)

\* the loop of TaskManager.execute_highest_priority_task from position i of
\* the list; outcomes[name] is what the handler of that task does if called;
\* invoked lists the handlers called so far
RECURSIVE execute_scan(_, _, _, _, _)
execute_scan(tm, i, outcomes, current_time, invoked) ==
    IF i > Len(tm.tasks)
    THEN [tm |-> tm, invoked |-> invoked, ret |-> "False"]
    ELSE IF is_on_cooldown(tm.tasks[i], current_time)
    THEN execute_scan(tm, i + 1, outcomes, current_time, invoked)
    ELSE LET task == tm.tasks[i]
             r == execute(task, outcomes[task.name], current_time)
             after == [tm EXCEPT !.tasks[i] = r.task]
             seen == IF r.invoked
                     THEN Append(invoked, [index |-> i, name |-> task.name,
                                           outcome |-> outcomes[task.name]])
                     ELSE invoked
         IN IF r.ret = "Exception"
            THEN [tm |-> after, invoked |-> seen, ret |-> "Exception"]
            ELSE IF r.ret = "True"
            THEN [tm |-> after, invoked |-> seen, ret |-> "True"]
            ELSE execute_scan(after, i + 1, outcomes, current_time, seen)

\* TaskManager.execute_highest_priority_task
execute_highest_priority_task(tm, outcomes, current_time) ==
    execute_scan(tm, 1, outcomes, current_time, <<>>)

(***************************************************************************)
(* The state machine (roborok/state_machine/state_machine.py)              *)
(***************************************************************************)
\* GameStateContext.__init__
GameStateContext ==
    [current_state |-> "UnknownState", game_view |-> "unknown", detections |-> <<>>]

\* tap_screen: the tap at a point succeeds if adb accepts taps of its kind
\* in this cycle; a point is the home button (31, 450), the centre of the
\* screen (240, 400), a tree or its harvest button at their fixed
\* coordinates, or the position of a detection, named by its class
tap_kind(point) ==
    IF point \in {"home", "center", "tree", "harvest"} THEN point ELSE "detection"

\* faulty variant: a tap adb refused is reported as done
tap_screen_reporting_success(accepted, point) == TRUE

tap_screen(accepted, point) == tap_kind(point) \in accepted

\* analyze_game_state: the view label of the detections, from position i on
RECURSIVE analyze_game_state(_, _)
analyze_game_state(detections, i) ==
    IF i > Len(detections) THEN "unknown"
    ELSE IF detections[i].class_name = "in_city" /\ is_confident(detections[i])
    THEN "city"
    ELSE IF detections[i].class_name = "on_map" /\ is_confident(detections[i])
    THEN "map"
    ELSE analyze_game_state(detections, i + 1)

\* the classes update() takes for elements of the tutorial
tutorial_classes ==
    {"click_arrow", "click_target", "counselor text bubble", "upgrade_complete"}

\* faulty variant: only the arrow and the target count as elements of the
\* tutorial
tutorial_elements_arrows_only(s, detections) ==
    /\ ~s.tutorial_completed
    /\ \E k \in 1..Len(detections) :
          detections[k].class_name \in {"click_arrow", "click_target"}

\* the test of update() that pre-empts the cycle for the tutorial
tutorial_elements(s, detections) ==
    /\ ~s.tutorial_completed
    /\ \E k \in 1..Len(detections) : detections[k].class_name \in tutorial_classes

\* the popup loop of update(), from position i on
RECURSIVE dismiss_popups(_, _, _, _)
dismiss_popups(detections, i, accepted, taps) ==
    IF i > Len(detections) THEN [ret |-> FALSE, taps |-> taps]
    ELSE IF detections[i].class_name = "new_feature_unlock" /\ is_confident(detections[i])
    THEN IF tap_screen(accepted, "home")
         THEN [ret |-> TRUE, taps |-> Append(taps, "home")]
         ELSE dismiss_popups(detections, i + 1, accepted, Append(taps, "home"))
    ELSE dismiss_popups(detections, i + 1, accepted, taps)

\* faulty variant: the map is resolved to the city view
determine_state_from_view_city_only(current_state, game_view) ==
    IF game_view \in {"city", "map"} THEN "CityViewState" ELSE current_state

\* GameStateContext._determine_state_from_view
determine_state_from_view(current_state, game_view) ==
    IF game_view = "city" THEN "CityViewState"
    ELSE IF game_view = "map" THEN "MapViewState"
    ELSE current_state

\* what the execute of a state gives back: the state and the ledger it leaves,
\* its return value and the taps it made
Executed(current_state, s, ret, taps) ==
    [current_state |-> current_state, instance_state |-> s, ret |-> ret, taps |-> taps]

\* UnknownState.execute, its detection loop from position i on
RECURSIVE UnknownState_execute(_, _, _, _)
UnknownState_execute(detections, i, s, accepted) ==
    IF i > Len(detections)
    THEN Executed("UnknownState", s, tap_screen(accepted, "home"), <<"home">>)
    ELSE IF detections[i].class_name = "in_city" /\ is_confident(detections[i])
    THEN Executed("CityViewState", s, TRUE, <<>>)
    ELSE IF detections[i].class_name = "on_map" /\ is_confident(detections[i])
    THEN Executed("MapViewState", s, TRUE, <<>>)
    ELSE UnknownState_execute(detections, i + 1, s, accepted)

\* faulty variant: the city view hands over to the unknown state, to be
\* resolved from the view label of the next cycle
CityViewState_execute_to_unknown(s) == Executed("UnknownState", s, FALSE, <<>>)

\* CityViewState.execute
CityViewState_execute(s) == Executed("CityViewState", s, FALSE, <<>>)

\* faulty variant: the map view is left as soon as the button is seen
RECURSIVE MapViewState_execute_without_tap(_, _, _, _, _)
MapViewState_execute_without_tap(detections, i, s, accepted, taps) ==
    IF i > Len(detections) THEN Executed("MapViewState", s, FALSE, taps)
    ELSE IF detections[i].class_name = "return_to_city_button" /\ is_confident(detections[i])
    THEN Executed("CityViewState", s, TRUE, Append(taps, "return_to_city_button"))
    ELSE MapViewState_execute_without_tap(detections, i + 1, s, accepted, taps)

\* MapViewState.execute, its detection loop from position i on
RECURSIVE MapViewState_execute(_, _, _, _, _)
MapViewState_execute(detections, i, s, accepted, taps) ==
    IF i > Len(detections) THEN Executed("MapViewState", s, FALSE, taps)
    ELSE IF detections[i].class_name = "return_to_city_button" /\ is_confident(detections[i])
    THEN IF tap_screen(accepted, "return_to_city_button")
         THEN Executed("CityViewState", s, TRUE, Append(taps, "return_to_city_button"))
         ELSE MapViewState_execute(detections, i + 1, s, accepted,
                                   Append(taps, "return_to_city_button"))
    ELSE MapViewState_execute(detections, i + 1, s, accepted, taps)

\* is_civilization
civilizations ==
    {"arabia", "britain", "china", "egypt", "france", "germany", "greece",
     "japan", "korea", "maya", "rome", "spain", "vikings"}

is_civilization(class_name) == class_name \in civilizations

\* the civilization TutorialState.execute prefers when the ledger names none
preferred_civ == "china"

\* some detection of the class is confident
confident_of(detections, class_name) ==
    \E k \in 1..Len(detections) :
        detections[k].class_name = class_name /\ is_confident(detections[k])

\* the number of detections of a civilization, confident or not
RECURSIVE civ_count(_, _)
civ_count(detections, i) ==
    IF i > Len(detections) THEN 0
    ELSE (IF is_civilization(detections[i].class_name) THEN 1 ELSE 0)
         + civ_count(detections, i + 1)

\* faulty variant: the tapped notification is not recorded in the ledger
upgrade_complete_clicked_unrecorded(s) == s

\* faulty variant: the tapped notification is recorded as the final arrow
upgrade_complete_clicked_as_final_arrow(s) ==
    [s EXCEPT !.tutorial_final_arrow_clicked = TRUE]

\* what a successful tap on the upgrade notification leaves in the ledger
upgrade_complete_clicked(s) == [s EXCEPT !.tutorial_upgrade_complete_clicked = TRUE]

\* faulty variant: the build screen ends the tutorial only under an arrow
tutorial_end_screen_under_arrow(detections) ==
    /\ confident_of(detections, "build_archery_range")
    /\ confident_of(detections, "build_confirm_button")
    /\ confident_of(detections, "build_reject_button")
    /\ confident_of(detections, "click_arrow")

\* the archery range build screen that ends the tutorial: the three build
\* elements and neither arrow nor target (in the elif chain of the first
\* loop each detection counts for one of the three)
tutorial_end_screen(detections) ==
    /\ confident_of(detections, "build_archery_range")
    /\ confident_of(detections, "build_confirm_button")
    /\ confident_of(detections, "build_reject_button")
    /\ ~confident_of(detections, "click_arrow")
    /\ ~confident_of(detections, "click_target")

\* the second loop of TutorialState.execute, from position i on: the first
\* detection whose tap succeeds, or that completes the tutorial, ends it
RECURSIVE tutorial_priority_loop(_, _, _, _, _)
tutorial_priority_loop(detections, i, s, accepted, taps) ==
    IF i > Len(detections)
    THEN [done |-> FALSE, current_state |-> "TutorialState", instance_state |-> s,
          taps |-> taps]
    ELSE LET detection == detections[i]
             class_name == detection.class_name
             tapping(point, after) ==
                 IF tap_screen(accepted, point)
                 THEN [done |-> TRUE, current_state |-> "TutorialState",
                       instance_state |-> after, taps |-> Append(taps, point)]
                 ELSE tutorial_priority_loop(detections, i + 1, s, accepted,
                                             Append(taps, point))
         IN IF class_name \in {"upgrade_complete", "new_feature_unlock"}
               /\ is_confident(detection)
            THEN tapping("center", upgrade_complete_clicked(s))
            ELSE IF class_name \in {"skip button", "skip_button"} /\ is_confident(detection)
            THEN tapping(class_name, s)
            ELSE IF class_name = "tutorial_complete" /\ is_confident(detection)
            THEN [done |-> TRUE, current_state |-> "CityViewState",
                  instance_state |-> [s EXCEPT !.tutorial_completed = TRUE],
                  taps |-> taps]
            ELSE IF class_name = "confirm_button" /\ is_confident(detection)
            THEN tapping(class_name, s)
            ELSE IF class_name = "counselor text bubble" /\ is_confident(detection)
            THEN tapping(class_name, s)
            ELSE IF class_name = "click_target" /\ is_confident(detection)
                    /\ ~s.tutorial_upgrade_complete_clicked
            THEN tapping(class_name, s)
            ELSE tutorial_priority_loop(detections, i + 1, s, accepted, taps)

\* TutorialState.execute
TutorialState_execute(detections, s, accepted) ==
    IF s.tutorial_upgrade_complete_clicked /\ s.tutorial_final_arrow_clicked
    THEN Executed("CityViewState", [s EXCEPT !.tutorial_completed = TRUE], TRUE, <<>>)
    ELSE
    LET has_arrow == confident_of(detections, "click_arrow")
        has_target == confident_of(detections, "click_target")
        found_preferred_civ == confident_of(detections, preferred_civ)
        loop == tutorial_priority_loop(detections, 1, s, accepted, <<>>)
        final_arrow ==
            /\ s.tutorial_upgrade_complete_clicked
            /\ ~s.tutorial_final_arrow_clicked
            /\ has_arrow /\ has_target
        civ_screen == civ_count(detections, 1) >= 3 /\ found_preferred_civ
        end_screen == tutorial_end_screen(detections)
        taps1 == loop.taps
        taps2 == IF final_arrow THEN Append(taps1, "click_target") ELSE taps1
        taps3 == IF civ_screen THEN Append(taps2, preferred_civ) ELSE taps2
        taps4 == IF end_screen THEN Append(taps3, "build_confirm_button") ELSE taps3
    IN IF loop.done
       THEN Executed(loop.current_state, loop.instance_state, TRUE, loop.taps)
       ELSE IF final_arrow /\ tap_screen(accepted, "click_target")
       THEN Executed("TutorialState",
                     [s EXCEPT !.tutorial_final_arrow_clicked = TRUE], TRUE, taps2)
       ELSE IF civ_screen /\ tap_screen(accepted, preferred_civ)
       THEN Executed("TutorialState", s, TRUE, taps3)
       ELSE IF end_screen /\ tap_screen(accepted, "build_confirm_button")
       THEN Executed("CityViewState", [s EXCEPT !.tutorial_completed = TRUE], TRUE, taps4)
       ELSE Executed("TutorialState", s, FALSE, taps4)

\* current_state.execute(context)
state_execute(current_state, detections, s, accepted) ==
    IF current_state = "UnknownState" THEN UnknownState_execute(detections, 1, s, accepted)
    ELSE IF current_state = "CityViewState" THEN CityViewState_execute(s)
    ELSE IF current_state = "MapViewState"
    THEN MapViewState_execute(detections, 1, s, accepted, <<>>)
    ELSE TutorialState_execute(detections, s, accepted)

\* GameStateContext.update on the detections the vision collaborator
\* returns: the context and the ledger it leaves, its return value, and what
\* it did on the way (preempted: the tutorial branch was taken; popup_taps:
\* the taps of the popup loop; resolved: _determine_state_from_view was
\* called; executed: the state whose execute ran, "none" if none did)
update(ctx, s, detections, accepted) ==
    LET game_view == analyze_game_state(detections, 1)
        seen == [ctx EXCEPT !.game_view = game_view, !.detections = detections]
        popups == dismiss_popups(detections, 1, accepted, <<>>)
    IN IF tutorial_elements(s, detections)
       THEN LET e == TutorialState_execute(detections, s, accepted)
            IN [context |-> [seen EXCEPT !.current_state = e.current_state],
                instance_state |-> e.instance_state, ret |-> e.ret, taps |-> e.taps,
                preempted |-> TRUE, popup_taps |-> <<>>, resolved |-> FALSE,
                executed |-> "TutorialState"]
       ELSE IF popups.ret
       THEN [context |-> seen, instance_state |-> s, ret |-> TRUE, taps |-> popups.taps,
             preempted |-> FALSE, popup_taps |-> popups.taps, resolved |-> FALSE,
             executed |-> "none"]
       ELSE LET resolving == ctx.current_state = "UnknownState"
                state == IF resolving
                         THEN determine_state_from_view(ctx.current_state, game_view)
                         ELSE ctx.current_state
                e == state_execute(state, detections, s, accepted)
            IN [context |-> [seen EXCEPT !.current_state = e.current_state],
                instance_state |-> e.instance_state, ret |-> e.ret,
                taps |-> popups.taps \o e.taps,
                preempted |-> FALSE, popup_taps |-> popups.taps, resolved |-> resolving,
                executed |-> state]

(***************************************************************************)
(* The persisted ledger (models.py to_dict and from_dict, main.py          *)
(* load_instance_state and save_instance_state)                            *)
(***************************************************************************)
\* An object is represented by its attribute dictionary, a function from
\* attribute names to values, so that __dict__ of an object is that function.

\* the fields the InstanceState dataclass declares, and those without default
dataclass_fields ==
    {"id", "device_id", "tutorial_completed", "tutorial_upgrade_complete_clicked",
     "tutorial_final_arrow_clicked", "tree_clearing_completed", "second_builder_added",
     "city_hall_level", "last_screenshot_path", "last_report_time", "building_tasks",
     "current_task_index"}

required_fields == {"id", "device_id"}

\* the fields the BuildTask dataclass declares, and those without default
build_task_fields ==
    {"type", "building", "detect_class", "completed", "skipped_attempts", "last_attempted"}

build_task_required == {"type", "building", "detect_class"}

\* a datetime, its ISO string, and a string that is no ISO date
datetime(t) == [datetime |-> t]

isoformat(d) == [str |-> "iso", of |-> d.datetime]

not_iso == [str |-> "not a date", of |-> 0]

\* datetime.fromisoformat raises ValueError on a string that is no ISO date
fromisoformat_raises(string) == string.str # "iso"

fromisoformat(string) == datetime(string.of)

\* InstanceState(id=..., device_id=...): every other field at its default
InstanceState_new(id, device_id) ==
    InstanceState @@
    [id |-> id, device_id |-> device_id, tree_clearing_completed |-> FALSE,
     second_builder_added |-> FALSE, last_screenshot_path |-> "",
     last_report_time |-> datetime(datetime_min)]

\* InstanceState.to_dict: every attribute of the object, declared or not; the
\* datetime becomes its ISO string, the build tasks and the building
\* positions become their attribute dictionaries
to_dict(self) ==
    [key \in DOMAIN self |->
        IF key = "last_report_time" THEN isoformat(self[key]) ELSE self[key]]

\* BuildTask(**task_dict) raises TypeError on an unknown or a missing keyword
BuildTask_raises(task_dict) ==
    \/ ~(DOMAIN task_dict \subseteq build_task_fields)
    \/ ~(build_task_required \subseteq DOMAIN task_dict)

\* BuildTask(**task_dict)
BuildTask_from(task_dict) ==
    [key \in build_task_fields |->
        IF key \in DOMAIN task_dict THEN task_dict[key]
        ELSE BuildTask("", "", "")[key]]

\* cls(**data_copy) raises TypeError on an unknown or a missing keyword
InstanceState_raises(data) ==
    \/ ~(DOMAIN data \subseteq dataclass_fields)
    \/ ~(required_fields \subseteq DOMAIN data)

\* dict.get(key, default)
get(data, key, default) == IF key \in DOMAIN data THEN data[key] ELSE default

\* InstanceState.from_dict
from_dict(data) ==
    LET raises ==
            \/ /\ "building_tasks" \in DOMAIN data
               /\ \E i \in 1..Len(data["building_tasks"]) :
                     BuildTask_raises(data["building_tasks"][i])
            \/ InstanceState_raises(data)
        converted(key) ==
            IF key = "last_report_time"
            THEN IF fromisoformat_raises(data[key]) THEN datetime(datetime_min)
                 ELSE fromisoformat(data[key])
            ELSE IF key = "building_tasks"
            THEN [i \in 1..Len(data[key]) |-> BuildTask_from(data[key][i])]
            ELSE data[key]
    IN IF raises
       THEN InstanceState_new(get(data, "id", "unknown"), get(data, "device_id", "unknown"))
       ELSE [key \in dataclass_fields |->
                IF key \in DOMAIN data THEN converted(key)
                ELSE InstanceState_new("", "")[key]]

\* the state file: absent, not JSON, or a JSON object of snapshots by
\* instance id; a snapshot is a JSON object or, in a file not written by
\* save_instance_state, another JSON value
no_file == [exists |-> FALSE, json |-> FALSE, states |-> <<>>]

not_json == [exists |-> TRUE, json |-> FALSE, states |-> <<>>]

json_file(states_data) == [exists |-> TRUE, json |-> TRUE, states |-> states_data]

json_object(members) == [json |-> "object", members |-> members]

json_null == [json |-> "null", members |-> <<>>]

\* faulty variant: nothing is written
save_instance_state_not_writing(file, instance_id, state) == file

\* save_instance_state, main() calling it with the one instance it runs
save_instance_state(file, instance_id, state) ==
    json_file([id \in {instance_id} |-> json_object(to_dict(state))])

\* load_instance_state
load_instance_state(file, instance_id, device_id) ==
    LET new_state == initialize_build_queue(InstanceState_new(instance_id, device_id))
    IN IF ~file.exists \/ ~file.json THEN new_state
       ELSE IF instance_id \notin DOMAIN file.states THEN new_state
       ELSE IF file.states[instance_id].json # "object" THEN new_state
       ELSE LET state == [from_dict(file.states[instance_id].members)
                            EXCEPT !.device_id = device_id]
            IN IF state.building_tasks = <<>> THEN initialize_build_queue(state)
               ELSE state

(***************************************************************************)
(* Tree clearing (actions.py clear_trees and its module variables)         *)
(***************************************************************************)
TREE_COORDINATES ==
    << <<134, 137>>, <<195, 169>>, <<261, 217>>, <<243, 173>>, <<292, 216>>,
       <<325, 235>>, <<333, 204>>, <<371, 225>>, <<378, 196>>, <<415, 215>>,
       <<479, 278>>, <<590, 363>>, <<521, 388>>, <<574, 261>>, <<352, 417>>,
       <<368, 391>>, <<299, 411>>, <<203, 382>>, <<176, 354>> >>

HARVEST_COORDINATES ==
    << <<158, 256>>, <<218, 256>>, <<286, 256>>, <<268, 257>>, <<319, 269>>,
       <<356, 292>>, <<364, 249>>, <<399, 275>>, <<406, 244>>, <<441, 269>>,
       <<504, 324>>, <<582, 415>>, <<548, 429>>, <<600, 314>>, <<375, 467>>,
       <<393, 439>>, <<327, 462>>, <<228, 426>>, <<203, 406>> >>

\* the tree index at which the view is reset between the two sets of trees
view_reset_index == 13

\* the safety limit of the tree clearing loop of run_startup_tasks
max_tree_attempts == 30

\* the module variables of actions.py as the import leaves them, with the
\* locals of the tree clearing loop of run_startup_tasks before it starts;
\* processed counts, for every tree index, how often clear_trees went for
\* that tree, and tap_failed tells whether adb refused a tap of the run
tree_clearing_at_import ==
    [tree_index |-> 0, clearing_complete |-> FALSE, view_reset_done |-> FALSE,
     tree_attempt_count |-> 0, tree_clearing_in_progress |-> FALSE,
     processed |-> [i \in 0..(Len(TREE_COORDINATES) - 1) |-> 0],
     tap_failed |-> FALSE]

\* reset_tree_clearing
reset_tree_clearing(t) ==
    [t EXCEPT !.tree_index = 0, !.clearing_complete = FALSE,
              !.view_reset_done = FALSE]

\* is_tree_clearing_complete
is_tree_clearing_complete(t) == t.clearing_complete

\* clear_trees on the module variables t and the ledger s: what it leaves of
\* both, what it returns, the index of the tree it went for (None if none)
\* and whether a tap of the call failed
clear_trees(t, s, accepted) ==
    LET result(t2, s2, ret, tree, failed) ==
            [tree_clearing |-> t2, instance_state |-> s2, ret |-> ret,
             tree |-> tree, failed |-> failed]
        next == [t EXCEPT !.tree_index = @ + 1]
    IN IF t.clearing_complete \/ s.tree_clearing_completed
       THEN result(t, s, FALSE, None, FALSE)
       ELSE IF t.tree_index = 0 /\ ~tap_screen(accepted, "home")
       THEN result(t, s, FALSE, None, TRUE)
       ELSE IF t.tree_index = view_reset_index /\ ~t.view_reset_done
       THEN IF ~tap_screen(accepted, "home")
            THEN result(t, s, FALSE, None, TRUE)
            ELSE result([t EXCEPT !.view_reset_done = TRUE], s, FALSE, None, FALSE)
       ELSE IF t.tree_index >= Len(TREE_COORDINATES)
       THEN result([t EXCEPT !.clearing_complete = TRUE],
                   [s EXCEPT !.tree_clearing_completed = TRUE], FALSE, None,
                   ~tap_screen(accepted, "home"))
       ELSE IF ~tap_screen(accepted, "tree")
       THEN result(next, s, FALSE, t.tree_index, TRUE)
       ELSE IF ~tap_screen(accepted, "harvest")
       THEN result(next, s, FALSE, t.tree_index, TRUE)
       ELSE result(next, s, TRUE, t.tree_index, FALSE)

\* the task manager, the state machine and the automation loop as main()
\* has them before its first cycle
LoopInit ==
    /\ tree_clearing = tree_clearing_at_import
    /\ task_manager = TaskManager
    /\ context = GameStateContext
    /\ pc = "update"
    /\ state_file = no_file

(***************************************************************************)
(* The vision collaborator (vision/roboflow.py capture_and_detect)         *)
(***************************************************************************)
\* analyze_game_state calls capture_and_detect with four attempts
max_attempts == 4

\* what one attempt gets: no screenshot (capture_screenshot returned None),
\* no response (detect_game_elements returned [] and an error), or the
\* detections of the screenshot
no_screenshot == [screenshot |-> FALSE, response |-> FALSE, detections |-> <<>>]

no_response == [screenshot |-> TRUE, response |-> FALSE, detections |-> <<>>]

detected(detections) ==
    [screenshot |-> TRUE, response |-> TRUE, detections |-> detections]

high_priority_elements ==
    {"help_chat_bubble", "farm_clickable", "lumber_mill_clickable",
     "alliance_help_request"}

\* det.is_confident(0.4)
is_confident_at(detection, threshold) == detection.confidence >= threshold

\* the attempt tapped something and goes for fresh detections: the exit
\* button of an alliance invite, or the first high-priority element
handled_high_priority(detections) ==
    LET has(class_name) ==
            \E k \in 1..Len(detections) :
                /\ detections[k].class_name = class_name
                /\ is_confident_at(detections[k], 40)
    IN \/ has("alliance_invite_join") /\ has("exit_dialog_button")
       \/ \E class_name \in high_priority_elements : has(class_name)

\* the local variable detections of capture_and_detect before its first
\* assignment, and after one
unbound == [bound |-> FALSE, value |-> <<>>]

bound_to(value) == [bound |-> TRUE, value |-> value]

\* capture_and_detect from attempt i on, detections being what the variable
\* holds: the detections returned, or the UnboundLocalError of the return
\* statement after the loop when no attempt assigned the variable
RECURSIVE capture_and_detect(_, _, _)
capture_and_detect(attempts, i, detections) ==
    IF i > max_attempts
    THEN IF detections.bound
         THEN [raises |-> FALSE, detections |-> detections.value]
         ELSE [raises |-> TRUE, detections |-> <<>>]
    ELSE IF ~attempts[i].screenshot
    THEN capture_and_detect(attempts, i + 1, detections)
    ELSE IF ~attempts[i].response
    THEN capture_and_detect(attempts, i + 1, bound_to(<<>>))
    ELSE IF handled_high_priority(attempts[i].detections)
    THEN capture_and_detect(attempts, i + 1, bound_to(attempts[i].detections))
    ELSE [raises |-> FALSE, detections |-> attempts[i].detections]

(***************************************************************************)
(* The automation loop of main() (roborok/main.py) and the quest handler   *)
(***************************************************************************)
\* a detection with the centre of its box
DetectionAt(class_name, confidence, x, y) ==
    Detection(class_name, confidence) @@ [x |-> x, y |-> y]

\* TaskConfig
TaskConfig(claim_only_main_quest) ==
    [claim_only_main_quest |-> claim_only_main_quest]

\* faulty variant: the side quest is tapped whether or not a
\* side_quest_claimable detection is present
RECURSIVE handle_collect_quests_any_indicator(_, _, _, _, _)
handle_collect_quests_any_indicator(detections, i, config, accepted, taps) ==
    IF i > Len(detections) THEN [ret |-> "False", taps |-> taps]
    ELSE LET detection == detections[i]
             class_name == detection.class_name
         IN IF class_name = "main_quest_claimable" /\ is_confident(detection)
            THEN LET point == [x |-> detection.x, y |-> detection.y]
                 IN IF tap_screen(accepted, class_name)
                    THEN [ret |-> "True", taps |-> Append(taps, point)]
                    ELSE handle_collect_quests_any_indicator(
                             detections, i + 1, config, accepted, Append(taps, point))
            ELSE IF class_name = "quests_claimable" /\ is_confident(detection)
                    /\ ~config.claim_only_main_quest
            THEN LET point == [x |-> detection.x, y |-> detection.y + 78]
                 IN IF tap_screen(accepted, class_name)
                    THEN [ret |-> "True", taps |-> Append(taps, point)]
                    ELSE handle_collect_quests_any_indicator(
                             detections, i + 1, config, accepted, Append(taps, point))
            ELSE handle_collect_quests_any_indicator(
                     detections, i + 1, config, accepted, taps)

\* handle_collect_quests, its second loop from position i on: what it
\* returns and the points it tapped; has_side_quest_claimable, the result of
\* its first loop, is confident_of(detections, "side_quest_claimable")
RECURSIVE handle_collect_quests(_, _, _, _, _)
handle_collect_quests(detections, i, config, accepted, taps) ==
    IF i > Len(detections) THEN [ret |-> "False", taps |-> taps]
    ELSE LET detection == detections[i]
             class_name == detection.class_name
         IN IF class_name = "main_quest_claimable" /\ is_confident(detection)
            THEN LET point == [x |-> detection.x, y |-> detection.y]
                 IN IF tap_screen(accepted, class_name)
                    THEN [ret |-> "True", taps |-> Append(taps, point)]
                    ELSE handle_collect_quests(detections, i + 1, config, accepted,
                                               Append(taps, point))
            ELSE IF class_name = "quests_claimable" /\ is_confident(detection)
                    /\ ~config.claim_only_main_quest
                    /\ confident_of(detections, "side_quest_claimable")
            THEN LET point == [x |-> detection.x, y |-> detection.y + 78]
                 IN IF tap_screen(accepted, class_name)
                    THEN [ret |-> "True", taps |-> Append(taps, point)]
                    ELSE handle_collect_quests(detections, i + 1, config, accepted,
                                               Append(taps, point))
            ELSE handle_collect_quests(detections, i + 1, config, accepted, taps)

\* the tasks of create_default_tasks, added one by one as main() does
default_task_manager ==
    add_task(add_task(TaskManager, Task("collect_quests", 100, 0)),
             Task("build_order", 90, 5))

\* what a handler's return, or its exception, is to Task.execute
handler_outcome(ret) ==
    IF ret \in {"True", "False"} THEN ret ELSE "raise"

\* faulty variant: the tasks are tried whatever update() returned
after_update_always_tasks(ret) ==
    IF ret = "Exception" THEN "ended" ELSE "tasks"

\* where the loop goes after state_machine.update(): to the tasks if it
\* returned false, past them if it returned true, out of the loop if it raised
after_update(ret) ==
    IF ret = "Exception" THEN "ended"
    ELSE IF ret = "True" THEN "save"
    ELSE "tasks"

\* where the loop goes after execute_highest_priority_task: on to the end of
\* the cycle, or, no except clause standing inside the while, out of the loop
after_tasks(ret) ==
    IF ret = "Exception" THEN "ended" ELSE "save"

(***************************************************************************)
(* Helpers of the model                                                    *)
(***************************************************************************)
RECURSIVE SumSkips(_, _)
SumSkips(tasks, i) ==
    IF i > Len(tasks) THEN 0 ELSE tasks[i].skipped_attempts + SumSkips(tasks, i + 1)

TotalSkips(s) == SumSkips(s.building_tasks, 1)

NoCall == [name |-> "none"]

(***************************************************************************)
(* Operations of the policy, called directly                                *)
(***************************************************************************)
Init ==
    /\ instance_state = InstanceState
    /\ now = 0
    /\ call = NoCall
    /\ LoopInit

\* time passes: the clock is read again at a later instant
Tick ==
    /\ \E t \in ClockInstants : t > now /\ now' = t
    /\ UNCHANGED <<instance_state, call, loop_vars>>

InitializeBuildQueue ==
    /\ instance_state' = initialize_build_queue(instance_state)
    /\ UNCHANGED <<now, call, loop_vars>>

MarkCurrentTaskCompleted ==
    /\ instance_state' = mark_current_task_completed(instance_state)
    /\ UNCHANGED <<now, call, loop_vars>>

SkipCurrentTask ==
    /\ TotalSkips(instance_state) < MaxSkips
    /\ \E c \in CooldownArgs :
          instance_state' = skip_current_task(instance_state, c, now)
    /\ UNCHANGED <<now, call, loop_vars>>

ResetToSkippedTask ==
    /\ \E c \in CooldownArgs :
          instance_state' = _reset_to_skipped_task(instance_state, c, now)
    /\ UNCHANGED <<now, call, loop_vars>>

Next ==
    \/ Tick
    \/ InitializeBuildQueue
    \/ MarkCurrentTaskCompleted
    \/ SkipCurrentTask
    \/ ResetToSkippedTask

Spec == Init /\ [][Next]_vars

(***************************************************************************)
(* The build-order handler, invoked cycle after cycle                      *)
(***************************************************************************)
GameViews == {"city", "map", "unknown"}

\* the detections of the cycle that matter to the builder check
CycleScreens ==
    { <<>>,
      <<Detection("builders_hut", 70)>>,
      <<Detection("builders_hut", 65)>>,
      <<Detection("builders_hut_idle", 70)>>,
      <<Detection("builders_hut_button", 65)>>,
      <<Detection("builders_hut_button", 30)>>,
      <<Detection("builders_hut_button", 65), Detection("builders_hut", 70)>>,
      <<Detection("builders_hut", 65), Detection("builders_hut_button", 65)>> }

\* what the vision collaborator returns after the tap on the builder's hut
MenuScreens ==
    { ScreenError,
      Screen(<<>>),
      Screen(<<Detection("builders_hut_button", 65)>>),
      Screen(<<Detection("builders_hut_button", 30)>>),
      Screen(<<Detection("builders_hut_button", 30), Detection("builders_hut_button", 65)>>) }

\* what the vision collaborator returns after the tap on the hut's button
QueueScreens ==
    { ScreenError,
      Screen(<<>>),
      Screen(<<Detection("builders_hut_build_button", 65)>>),
      Screen(<<Detection("builders_hut_build_button", 30)>>),
      Screen(<<Detection("builders_hut_two_queues_available", 65)>>),
      Screen(<<Detection("builders_hut_two_queues_available", 60)>>),
      Screen(<<Detection("builders_hut_build_button", 65),
               Detection("builders_hut_two_queues_available", 65)>>),
      Screen(<<Detection("builders_hut_two_queues_available", 60),
               Detection("builders_hut_build_button", 65)>>) }

\* every result the builder check can have on these screens, the taps
\* succeeding or failing
BuilderChecks ==
    { builder_check(detections, hut_tap, menu, button_tap, queue) :
        detections \in CycleScreens, hut_tap \in BOOLEAN, menu \in MenuScreens,
        button_tap \in BOOLEAN, queue \in QueueScreens }

\* the builder check of a call that returned before it
NoCheck ==
    [proceed |-> FALSE, available_queues |-> 0, counted |-> FALSE,
     queue_detections |-> <<>>]

\* the outcomes of the procedures of the tasks a call can dispatch after
\* this builder check: one for each round of the dispatch loop
OutcomeSeqs(check) ==
    IF check.proceed
    THEN [1..max_tasks_for(check.available_queues) -> ProcedureOutcomes]
    ELSE {<<>>}

\* the ledger after the tasks before index c of the default queue were
\* dispatched at time 0, the procedures of those in failed failing
RECURSIVE Progress(_, _, _)
Progress(s, c, failed) ==
    IF s.current_task_index >= c \/ s.current_task_index >= Len(s.building_tasks)
    THEN s
    ELSE IF s.current_task_index \in failed
    THEN Progress(skip_current_task(s, SkipCooldown, 0), c, failed)
    ELSE Progress(dispatch_loop(s, 0, 1, <<"success">>, FALSE, <<>>, 0).state, c, failed)

\* the sets of tasks that failed before the snapshot was stored
FailedSets == {{}, {0}, {0, 1}}

\* the ledgers load_instance_state starts a run with: a fresh one, or the
\* snapshot of an earlier run
StoredLedgers ==
    {InstanceState} \cup
    { Progress(initialize_build_queue(InstanceState), c, failed) :
        c \in 0..Len(default_build_queue), failed \in FailedSets }

HandlerInit ==
    /\ instance_state \in StoredLedgers
    /\ now = 0
    /\ call = NoCall
    /\ LoopInit

\* time passes between two cycles; past the last instant of the model the
\* clock stays on it
ClockTick ==
    /\ \E t \in CycleInstants :
          /\ \/ t > now
             \/ t = now /\ \A u \in CycleInstants : u <= now
          /\ now' = t
    /\ call' = NoCall
    /\ UNCHANGED <<instance_state, loop_vars>>

\* one invocation of handle_build_order by the task manager
HandleBuildOrder ==
    /\ \E game_view \in GameViews :
        \E check \in (IF game_view = "city" THEN BuilderChecks ELSE {NoCheck}) :
          \E outcomes \in OutcomeSeqs(check) :
            LET r == handle_build_order(instance_state, game_view, check, outcomes, now) IN
            /\ instance_state' = r.state
            /\ call' = [name |-> "handle_build_order", game_view |-> game_view,
                        check |-> IF r.checked THEN check ELSE NoCheck,
                        entry |-> entry_index(instance_state, now),
                        dispatched |-> r.dispatched, ret |-> r.ret]
    /\ UNCHANGED <<now, loop_vars>>

HandlerNext ==
    \/ ClockTick
    \/ HandleBuildOrder

HandlerSpec == HandlerInit /\ [][HandlerNext]_vars

(***************************************************************************)
(* Properties of the build queue policy                                    *)
(***************************************************************************)
tasks == instance_state.building_tasks

cursor == instance_state.current_task_index

\* a task the retry scan may select at time t under a cooldown of
\* cooldown_sec seconds
Retryable(task, cooldown_sec, t) ==
    /\ ~task.completed
    /\ task.skipped_attempts >= 1
    /\ t - task.last_attempted >= cooldown_sec

\* the lowest index of a task of queue the retry scan may select, or the
\* length of queue when there is none
LowestRetryable(queue, cooldown_sec, t) ==
    LET candidates == {k \in 0..(Len(queue) - 1) : Retryable(queue[k + 1], cooldown_sec, t)}
    IN IF candidates = {}
       THEN Len(queue)
       ELSE CHOOSE k \in candidates : \A j \in candidates : k <= j

\* queue and after differ at most in the fields completed, skipped_attempts
\* and last_attempted of the task at index i
OnlyTaskChanged(queue, after, i) ==
    /\ Len(after) = Len(queue)
    /\ \A k \in 1..Len(queue) : k # i + 1 => after[k] = queue[k]
    /\ after[i + 1].type = queue[i + 1].type
    /\ after[i + 1].building = queue[i + 1].building
    /\ after[i + 1].detect_class = queue[i + 1].detect_class

\* C1: after any sequence of initialize_build_queue,
\* mark_current_task_completed, skip_current_task and _reset_to_skipped_task
\* calls on a ledger that starts with cursor 0, current_task_index is in
\* [0, len(building_tasks)].
C1_CursorInRange == cursor \in 0..Len(tasks)

\* the cursor has run to the end of a queue in which a task was skipped
C1_Witness ==
    /\ tasks # <<>>
    /\ cursor = Len(tasks)
    /\ \E k \in 1..Len(tasks) : tasks[k].skipped_attempts > 0

\* C2: for a cursor i in [0, len), skip_current_task increments the skip
\* counter of task i and of no other task, records the current time as its
\* last-skip timestamp and advances the cursor by one; when that reaches len
\* the retry scan runs in the same call, so the cursor ends at the lowest
\* retryable index, or at len when there is none.
C2_SkipCurrentTask ==
    [][\A c \in CooldownArgs :
          (/\ cursor < Len(tasks)
           /\ instance_state' = skip_current_task(instance_state, c, now))
          => LET i == cursor
                 after == instance_state'.building_tasks
             IN /\ OnlyTaskChanged(tasks, after, i)
                /\ after[i + 1].skipped_attempts = tasks[i + 1].skipped_attempts + 1
                /\ after[i + 1].last_attempted = now
                /\ after[i + 1].completed = tasks[i + 1].completed
                /\ instance_state'.city_hall_level = instance_state.city_hall_level
                /\ instance_state'.current_task_index =
                      IF i + 1 < Len(tasks)
                      THEN i + 1
                      ELSE LowestRetryable(after, c * 60, now)]_vars

\* the last task of the queue was skipped just now and the retry scan of
\* the same call has moved the cursor back into the queue
C2_Witness ==
    /\ tasks # <<>>
    /\ tasks[Len(tasks)].skipped_attempts >= 1
    /\ tasks[Len(tasks)].last_attempted = now
    /\ cursor < Len(tasks) - 1

\* C3: _reset_to_skipped_task sets the cursor to the lowest index of a task
\* that is not completed, has a skip counter of at least 1 and was last
\* skipped at least the cooldown ago; a completed task or one with skip
\* counter 0 is never selected; when no task qualifies the cursor is set to
\* len(building_tasks). The scan changes nothing but the cursor.
C3_RetryScan ==
    [][\A c \in CooldownArgs :
          (instance_state' = _reset_to_skipped_task(instance_state, c, now))
          => /\ instance_state'.current_task_index = LowestRetryable(tasks, c * 60, now)
             /\ instance_state'.building_tasks = tasks
             /\ instance_state'.current_task_index < Len(tasks)
                   => LET task == tasks[instance_state'.current_task_index + 1]
                      IN ~task.completed /\ task.skipped_attempts >= 1]_vars

\* two skipped tasks are past the cooldown, a task of lower index is
\* completed, and the cursor is back on the lower of the two
C3_Witness ==
    \E i, j \in 0..(Len(tasks) - 1) :
        /\ 0 < i /\ i < j
        /\ tasks[1].completed
        /\ Retryable(tasks[i + 1], 600, now)
        /\ Retryable(tasks[j + 1], 600, now)
        /\ cursor = i

\* C4: for a cursor i in [0, len), mark_current_task_completed sets
\* building_tasks[i].completed, changes no other task and advances the cursor
\* to i+1; with the cursor at len the call changes nothing.
C4_MarkCurrentTaskCompleted ==
    [][(instance_state' = mark_current_task_completed(instance_state))
          => IF cursor < Len(tasks)
             THEN LET after == instance_state'.building_tasks
                  IN /\ OnlyTaskChanged(tasks, after, cursor)
                     /\ after[cursor + 1].completed
                     /\ after[cursor + 1].skipped_attempts = tasks[cursor + 1].skipped_attempts
                     /\ after[cursor + 1].last_attempted = tasks[cursor + 1].last_attempted
                     /\ instance_state'.current_task_index = cursor + 1
                     /\ instance_state'.city_hall_level = instance_state.city_hall_level
             ELSE instance_state' = instance_state]_vars

\* the first three tasks were completed one after the other
C4_Witness ==
    /\ cursor = 3
    /\ \A k \in 1..3 : tasks[k].completed
    /\ \A k \in 4..Len(tasks) : ~tasks[k].completed

\* the kind and the building of the tasks of the default build queue, in
\* order
DefaultOrdering ==
    << <<"upgrade", "cityhall">>, <<"upgrade", "barracks">>,
       <<"upgrade", "scout_camp">>, <<"upgrade", "farm">>,
       <<"upgrade", "tavern">>, <<"upgrade", "farm">>,
       <<"upgrade", "hospital">>, <<"build_new", "lumber_mill">>,
       <<"upgrade", "wall">>, <<"upgrade", "lumber_mill">>,
       <<"upgrade", "cityhall">>, <<"upgrade", "lumber_mill">>,
       <<"upgrade", "archery_range">>, <<"upgrade", "barracks">>,
       <<"build_new", "stable">>, <<"upgrade", "scout_camp">>,
       <<"upgrade", "hospital">>, <<"upgrade", "lumber_mill">> >>

\* C5: initialize_build_queue on an empty building_tasks installs the fixed
\* default ordering, every task not completed with skip counter 0, and sets
\* the cursor to 0; on a non-empty building_tasks it changes neither the
\* tasks nor the cursor.
C5_InitializeBuildQueue ==
    [][(instance_state' = initialize_build_queue(instance_state))
          => IF tasks = <<>>
             THEN LET after == instance_state'.building_tasks
                  IN /\ Len(after) = Len(DefaultOrdering)
                     /\ \A k \in 1..Len(after) :
                           /\ <<after[k].type, after[k].building>> = DefaultOrdering[k]
                           /\ ~after[k].completed
                           /\ after[k].skipped_attempts = 0
                     /\ instance_state'.current_task_index = 0
             ELSE instance_state' = instance_state]_vars

\* a queue that was installed and has since seen a completion and a skip
C5_Witness ==
    /\ Len(tasks) = Len(DefaultOrdering)
    /\ \A k \in 1..Len(tasks) : <<tasks[k].type, tasks[k].building>> = DefaultOrdering[k]
    /\ cursor > 0
    /\ \E k \in 1..Len(tasks) : tasks[k].completed
    /\ \E k \in 1..Len(tasks) : tasks[k].skipped_attempts > 0

(***************************************************************************)
(* The build-order handler under the fairness of the cycle loop: cycle     *)
(* follows cycle and the clock advances, and again and again the handler   *)
(* invoked in a cycle finds a free builder queue and dispatches a task,    *)
(* unless the ledger has none left to dispatch                             *)
(***************************************************************************)
\* the handler was invoked in this cycle and dispatched a task
Dispatched ==
    /\ call.name = "handle_build_order"
    /\ call.dispatched # <<>>

\* the handler finds the cursor at the end of the queue and no task to retry
QueueExhausted ==
    /\ instance_state.building_tasks # <<>>
    /\ entry_index(instance_state, now) >= Len(instance_state.building_tasks)

LiveSpec ==
    /\ HandlerInit
    /\ [][HandlerNext]_vars
    /\ WF_vars(ClockTick)
    /\ []<>(Dispatched \/ QueueExhausted)

(***************************************************************************)
(* Properties of the build-order handler                                   *)
(***************************************************************************)
\* a step that is one invocation of handle_build_order
HandlerStep == call'.name = "handle_build_order" /\ now' = now

\* the queue the handler works on: the default queue when it finds none
QueueAtEntry == IF tasks = <<>> THEN default_build_queue ELSE tasks

\* the free builder queues a queue screen reports
ReportedFree(queue_detections) ==
    IF \E k \in 1..Len(queue_detections) :
          /\ queue_detections[k].class_name = "builders_hut_two_queues_available"
          /\ queue_detections[k].confidence > 60
    THEN 2
    ELSE IF \E k \in 1..Len(queue_detections) :
               /\ queue_detections[k].class_name = "builders_hut_build_button"
               /\ queue_detections[k].confidence > 30
         THEN 1
         ELSE 0

\* C6: when the procedure of a dispatched task fails (returns false or
\* raises), the handler skips that task through the policy - skip counter
\* incremented, last-skip time recorded, cursor advanced - and returns
\* normally without raising.
C6_FailedTaskIsSkipped ==
    [][HandlerStep =>
          \A k \in 1..Len(call'.dispatched) :
              LET d == call'.dispatched[k] IN
              d.outcome # "success" =>
                  /\ instance_state'.building_tasks[d.index + 1].skipped_attempts
                        = QueueAtEntry[d.index + 1].skipped_attempts + 1
                  /\ instance_state'.building_tasks[d.index + 1].last_attempted = now
                  /\ instance_state'.current_task_index # d.index
                  /\ call'.ret \in {"True", "False"}]_vars

\* task i is the current task, or was it during the last invocation of the
\* handler
IsOrWasCurrent(i) ==
    \/ cursor = i
    \/ /\ call.name = "handle_build_order"
       /\ \/ call.entry = i
          \/ \E k \in 1..Len(call.dispatched) : call.dispatched[k].index = i

\* C7: with the clock advancing and the handler invoked again and again,
\* every task that was skipped and is not completed eventually becomes the
\* current task again, whatever the outcomes of the other tasks.
C7_SkippedTaskIsRetried ==
    \A i \in 0..(Len(default_build_queue) - 1) :
        (/\ Len(tasks) > i
         /\ tasks[i + 1].skipped_attempts > 0
         /\ ~tasks[i + 1].completed)
        ~> IsOrWasCurrent(i)

\* C8: cooldowns are compared in seconds: the rescan handle_build_order
\* runs at the end of the queue with 10 selects the lowest task that is not
\* completed and was skipped 10 or more seconds earlier.
C8_RescanCooldownInSeconds ==
    [][(/\ HandlerStep
        /\ tasks # <<>>
        /\ cursor >= Len(tasks))
          => call'.entry = LowestRetryable(tasks, 10, now)]_vars

\* C9: when the procedure of a dispatched task succeeds, the handler marks
\* exactly that task completed and advances the cursor by one, and it
\* increments city_hall_level by one if and only if the task is an upgrade
\* of cityhall.
C9_SucceededTaskIsCompleted ==
    [][HandlerStep =>
          LET d == call'.dispatched
              after == instance_state'.building_tasks
              succeeded == {k \in 1..Len(d) : d[k].outcome = "success"}
              city_halls == {k \in succeeded :
                                /\ QueueAtEntry[d[k].index + 1].type = "upgrade"
                                /\ QueueAtEntry[d[k].index + 1].building = "cityhall"}
          IN /\ Len(after) = Len(QueueAtEntry)
             /\ \A k \in succeeded :
                   /\ after[d[k].index + 1].completed
                   /\ IF k < Len(d)
                      THEN d[k + 1].index = d[k].index + 1
                      ELSE instance_state'.current_task_index = d[k].index + 1
             /\ \A j \in 1..Len(after) :
                   (\A k \in succeeded : d[k].index + 1 # j)
                      => after[j].completed = QueueAtEntry[j].completed
             /\ instance_state'.city_hall_level
                   = instance_state.city_hall_level + Cardinality(city_halls)]_vars

\* one call has upgraded the city hall and the barracks: two tasks
\* completed, the cursor two further, one level gained
C9_Witness ==
    /\ call.name = "handle_build_order"
    /\ Len(call.dispatched) = 2
    /\ call.dispatched[1] = [index |-> 0, outcome |-> "success"]
    /\ call.dispatched[2] = [index |-> 1, outcome |-> "success"]
    /\ tasks[1].completed /\ tasks[2].completed
    /\ cursor = 2
    /\ instance_state.city_hall_level = 2

\* C10: one invocation dispatches tasks only if the view is the city and at
\* least one builder queue is reported free, and then at most
\* min(free queues, 2) of them; when no queue is reported free, or the view
\* is not the city, no task is completed or skipped and the dispatch loop
\* leaves the cursor where the handler's entry put it.
C10_DispatchBoundedByFreeQueues ==
    [][HandlerStep =>
          LET d == call'.dispatched
              free == ReportedFree(call'.check.queue_detections)
              after == instance_state'.building_tasks
          IN /\ d # <<>> => call'.game_view = "city" /\ free >= 1
             /\ Len(d) <= (IF free < 2 THEN free ELSE 2)
             /\ (free = 0 \/ call'.game_view # "city") =>
                   /\ d = <<>>
                   /\ Len(after) = Len(QueueAtEntry)
                   /\ \A j \in 1..Len(after) :
                         /\ after[j].completed = QueueAtEntry[j].completed
                         /\ after[j].skipped_attempts = QueueAtEntry[j].skipped_attempts
                   /\ instance_state'.current_task_index =
                         IF cursor < Len(QueueAtEntry)
                         THEN cursor
                         ELSE LowestRetryable(QueueAtEntry, RescanCooldown * 60, now)]_vars

\* with two builder queues reported free one call has dispatched two tasks
C10_Witness ==
    /\ call.name = "handle_build_order"
    /\ call.game_view = "city"
    /\ ReportedFree(call.check.queue_detections) = 2
    /\ Len(call.dispatched) = 2

(***************************************************************************)
(* The task manager, its operations called directly                        *)
(***************************************************************************)
\* the tasks add_task is given: the two of create_default_tasks and a third
\* of the priority of build_order
TaskPool ==
    { Task("collect_quests", 100, 0),
      Task("build_order", 90, 5),
      Task("train_troops", 90, 0) }

TaskNames == { t.name : t \in TaskPool }

TaskInit ==
    /\ instance_state = InstanceState
    /\ now = 0
    /\ call = NoCall
    /\ LoopInit

TaskTick ==
    /\ \E t \in TaskInstants : t > now /\ now' = t
    /\ call' = NoCall
    /\ UNCHANGED <<instance_state, loop_vars>>

AddTask ==
    /\ Len(task_manager.tasks) < MaxTasks
    /\ \E task \in TaskPool :
          /\ task_manager' = add_task(task_manager, task)
          /\ call' = [name |-> "add_task", task |-> task.name]
    /\ UNCHANGED <<instance_state, now, context, pc, state_file, tree_clearing>>

RemoveTask ==
    /\ \E task_name \in TaskNames :
          LET r == remove_task(task_manager, task_name) IN
          /\ task_manager' = r.tm
          /\ call' = [name |-> "remove_task", task |-> task_name, ret |-> r.ret]
    /\ UNCHANGED <<instance_state, now, context, pc, state_file, tree_clearing>>

ExecuteHighestPriorityTask ==
    /\ \E outcomes \in [TaskNames -> HandlerOutcomes] :
          LET r == execute_highest_priority_task(task_manager, outcomes, now) IN
          /\ task_manager' = r.tm
          /\ call' = [name |-> "execute_highest_priority_task", outcomes |-> outcomes,
                      invoked |-> r.invoked, ret |-> r.ret]
    /\ UNCHANGED <<instance_state, now, context, pc, state_file, tree_clearing>>

TaskNext ==
    \/ TaskTick
    \/ AddTask
    \/ RemoveTask
    \/ ExecuteHighestPriorityTask

TaskSpec == TaskInit /\ [][TaskNext]_vars

(***************************************************************************)
(* Properties of the task manager                                          *)
(***************************************************************************)
\* a step that is one call of execute_highest_priority_task
ExecuteStep == call'.name = "execute_highest_priority_task" /\ now' = now

\* the task list before and after the step
task_list == task_manager.tasks

OnCooldown(task, t) == t - task.last_executed < task.cooldown_sec

\* C11: execute_highest_priority_task considers the tasks in descending
\* priority order, never invokes the handler of a task on cooldown, and stops
\* at the first task whose handler returns true: that task's last_executed is
\* set to now, the call returns true, and no later task's handler is invoked.
C11_FirstActingTaskWins ==
    [][ExecuteStep =>
          LET inv == call'.invoked IN
          /\ \A k \in 1..Len(inv) :
                /\ inv[k].index \in 1..Len(task_list)
                /\ task_list[inv[k].index].name = inv[k].name
                /\ ~OnCooldown(task_list[inv[k].index], now)
                /\ \A l \in (k + 1)..Len(inv) :
                      /\ inv[k].index < inv[l].index
                      /\ task_list[inv[k].index].priority
                            >= task_list[inv[l].index].priority
                /\ \A i \in 1..(inv[k].index - 1) :
                      \/ OnCooldown(task_list[i], now)
                      \/ \E l \in 1..(k - 1) : inv[l].index = i
                /\ inv[k].outcome = "True" =>
                      /\ k = Len(inv)
                      /\ call'.ret = "True"
                      /\ task_manager'.tasks[inv[k].index].last_executed = now
          /\ call'.ret = "True" =>
                /\ inv # <<>>
                /\ inv[Len(inv)].outcome = "True"]_vars

\* the handler of the first task returned false, the second task was on
\* cooldown, the handler of the third returned true
C11_Witness ==
    /\ call.name = "execute_highest_priority_task"
    /\ call.ret = "True"
    /\ Len(task_list) = 3
    /\ Len(call.invoked) = 2
    /\ call.invoked[1].index = 1 /\ call.invoked[1].outcome = "False"
    /\ call.invoked[2].index = 3 /\ call.invoked[2].outcome = "True"
    /\ OnCooldown(task_list[2], now)
    /\ task_list[3].last_executed = now

\* C12: if every task is on cooldown or its handler returns false, the call
\* returns false and leaves every last_executed unchanged; a handler that
\* returns false does not start the cooldown of its task.
C12_NoActionNoCooldown ==
    [][ExecuteStep =>
          /\ (\A i \in 1..Len(task_list) :
                 \/ OnCooldown(task_list[i], now)
                 \/ call'.outcomes[task_list[i].name] = "False")
                => /\ call'.ret = "False"
                   /\ task_manager' = task_manager
          /\ \A k \in 1..Len(call'.invoked) :
                call'.invoked[k].outcome = "False" =>
                   task_manager'.tasks[call'.invoked[k].index].last_executed
                      = task_list[call'.invoked[k].index].last_executed]_vars

\* one task was on cooldown and the handlers of the two others returned
\* false: nothing was executed and the two never-run tasks still never ran
C12_Witness ==
    /\ call.name = "execute_highest_priority_task"
    /\ call.ret = "False"
    /\ Len(task_list) = 3
    /\ Len(call.invoked) = 2
    /\ \E i \in 1..3 : OnCooldown(task_list[i], now)
    /\ \A k \in 1..2 : task_list[call.invoked[k].index].last_executed = datetime_min

\* C13: after any sequence of add_task and remove_task calls the task list
\* is sorted in descending priority order.
C13_TaskListSorted ==
    \A i \in 1..Len(task_list) : \A j \in (i + 1)..Len(task_list) :
        task_list[i].priority >= task_list[j].priority

\* the task added last, appended behind two tasks of lower priority, is
\* first in the list
C13_Witness ==
    /\ call.name = "add_task"
    /\ call.task = "collect_quests"
    /\ Len(task_list) = 3
    /\ task_list[1].name = "collect_quests"
    /\ task_list[2].priority < 100
    /\ task_list[3].priority < 100

(***************************************************************************)
(* The automation loop: cycle after cycle update(), the tasks if update()  *)
(* returned false, then the save and the sleep                             *)
(***************************************************************************)
\* the detections a cycle of the gameplay loop can get
LoopScreens ==
    { <<>>,
      <<Detection("in_city", 65)>>,
      <<Detection("in_city", 70)>>,
      <<Detection("on_map", 70), Detection("return_to_city_button", 70)>>,
      <<Detection("new_feature_unlock", 70), Detection("in_city", 70)>>,
      <<Detection("in_city", 70),
        DetectionAt("main_quest_claimable", 70, 100, 200)>>,
      <<Detection("in_city", 70), Detection("builders_hut", 70)>>,
      <<Detection("in_city", 70), Detection("builders_hut_button", 65)>> }

\* the kinds of tap adb can accept or refuse in a cycle
TapKinds == {"home", "center", "detection"}

\* the ledgers main() enters its loop with: the tutorial is completed (main
\* runs it first, or marks it completed when told to skip it)
LoopLedgers ==
    { [l EXCEPT !.tutorial_completed = TRUE] :
        l \in {InstanceState, Progress(initialize_build_queue(InstanceState), 16, {})} }

\* the instance main() runs (--instance) and its device
args_instance == "instance1"

device_id == "emulator-5554"

\* the ledger object of the loop: the attributes the loop changes, the
\* others as the constructor left them
ledger_object(s) == s @@ InstanceState_new(args_instance, device_id)

\* save_instance_state(args.state, {args.instance: state_machine.instance_state})
saved(file, s) == save_instance_state(file, args_instance, ledger_object(s))

\* main() before its first cycle: the ledger load_instance_state returned,
\* read from the state file if it has progress
CycleInit ==
    /\ tree_clearing = tree_clearing_at_import
    /\ instance_state \in LoopLedgers
    /\ now = 0
    /\ call = NoCall
    /\ task_manager = default_task_manager
    /\ context = GameStateContext
    /\ pc = "update"
    /\ state_file = IF instance_state.building_tasks = <<>> THEN no_file
                    ELSE saved(no_file, [instance_state EXCEPT !.tutorial_completed = FALSE])

\* the attempts capture_and_detect makes in a cycle: a clean screen at once
\* or after attempts that failed or tapped a high-priority element, and the
\* runs in which no attempt gets detections
VisionRuns ==
    { <<detected(screen)>> : screen \in LoopScreens }
    \cup
    { <<no_screenshot, detected(<<Detection("in_city", 70)>>)>>,
      <<no_response, no_screenshot, detected(<<>>)>>,
      <<detected(<<Detection("help_chat_bubble", 40), Detection("in_city", 70)>>),
        detected(<<Detection("in_city", 70)>>)>>,
      <<detected(<<Detection("alliance_invite_join", 40),
                   Detection("exit_dialog_button", 40)>>),
        no_response, no_screenshot, no_screenshot>>,
      [i \in 1..max_attempts |->
          detected(<<Detection("farm_clickable", 70), Detection("in_city", 70)>>)],
      [i \in 1..max_attempts |-> no_response],
      [i \in 1..max_attempts |-> IF i = 1 THEN no_response ELSE no_screenshot],
      [i \in 1..max_attempts |-> IF i = 4 THEN no_response ELSE no_screenshot],
      [i \in 1..max_attempts |-> no_screenshot] }

\* state_machine.update(), on what analyze_game_state gets from
\* capture_and_detect: detections, or its exception
CycleUpdate ==
    /\ pc = "update"
    /\ \E attempts \in VisionRuns, accepted \in SUBSET TapKinds :
          LET vision == capture_and_detect(attempts, 1, unbound)
              r == update(context, instance_state, vision.detections, accepted)
              ret == IF vision.raises THEN "Exception"
                     ELSE IF r.ret THEN "True" ELSE "False"
          IN /\ context' = IF vision.raises THEN context ELSE r.context
             /\ instance_state' =
                   IF vision.raises THEN instance_state ELSE r.instance_state
             /\ call' = [name |-> "update", ret |-> ret, attempts |-> attempts,
                         screen |-> vision.detections,
                         taps |-> IF vision.raises THEN <<>> ELSE r.taps]
             /\ pc' = after_update(ret)
    /\ UNCHANGED <<now, task_manager, state_file, tree_clearing>>

\* task_manager.execute_highest_priority_task with the view and the
\* detections of the state machine; what the handlers find on the screens
\* they capture themselves is chosen here
CycleTasks ==
    /\ pc = "tasks"
    /\ \E accepted \in SUBSET TapKinds :
       \E check \in { builder_check(context.detections, hut_tap, menu, button_tap, queue) :
                        hut_tap \in BOOLEAN, menu \in MenuScreens,
                        button_tap \in BOOLEAN, queue \in QueueScreens } :
       \E procedures \in OutcomeSeqs(check) :
          LET quests == handle_collect_quests(context.detections, 1, TaskConfig(FALSE),
                                              accepted, <<>>)
              build == handle_build_order(instance_state, context.game_view, check,
                                          procedures, now)
              outcomes == [name \in {"collect_quests", "build_order"} |->
                             IF name = "collect_quests" THEN handler_outcome(quests.ret)
                             ELSE handler_outcome(build.ret)]
              r == execute_highest_priority_task(task_manager, outcomes, now)
              built == \E k \in 1..Len(r.invoked) : r.invoked[k].name = "build_order"
          IN /\ task_manager' = r.tm
             /\ instance_state' = IF built THEN build.state ELSE instance_state
             /\ call' = [name |-> "execute_highest_priority_task",
                         game_view |-> context.game_view,
                         detections |-> context.detections,
                         outcomes |-> outcomes, invoked |-> r.invoked, ret |-> r.ret]
             /\ pc' = after_tasks(r.ret)
    /\ UNCHANGED <<now, context, state_file, tree_clearing>>

\* save_instance_state and the sleep that ends the cycle; past the last
\* instant of the model the clock stays on it
CycleSleep ==
    /\ pc = "save"
    /\ \E t \in CycleInstants :
          /\ \/ t > now
             \/ t = now /\ \A u \in CycleInstants : u <= now
          /\ now' = t
    /\ call' = NoCall
    /\ pc' = "update"
    /\ state_file' = saved(state_file, instance_state)
    /\ UNCHANGED <<instance_state, task_manager, context, tree_clearing>>

\* the loop ends without an exception of the cycle: the cycle limit is
\* reached when the loop condition is tested, or KeyboardInterrupt arrives
CycleStop ==
    /\ pc \in {"update", "tasks", "save"}
    /\ \E reason \in {"cycles", "KeyboardInterrupt"} :
          /\ reason = "cycles" => pc = "update"
          /\ call' = [name |-> "stop", reason |-> reason, at |-> pc]
    /\ pc' = "ended"
    /\ UNCHANGED <<instance_state, now, task_manager, context, state_file, tree_clearing>>

\* the finally clause of main(): the state is saved before exiting
CycleExit ==
    /\ pc = "ended"
    /\ state_file' = saved(state_file, instance_state)
    /\ call' = [name |-> "exit",
                reason |-> IF call.name = "stop" THEN call.reason ELSE "Exception"]
    /\ pc' = "exited"
    /\ UNCHANGED <<instance_state, now, task_manager, context, tree_clearing>>

CycleNext ==
    \/ CycleUpdate
    \/ CycleTasks
    \/ CycleSleep
    \/ CycleStop
    \/ CycleExit

CycleSpec == CycleInit /\ [][CycleNext]_vars

(***************************************************************************)
(* Properties of the automation loop                                       *)
(***************************************************************************)
\* a step that is the update() of a cycle, a step that is its call of the
\* task manager
UpdateStep == pc = "update" /\ call'.name = "update"

TasksStep == pc = "tasks" /\ call'.name = "execute_highest_priority_task"

\* the view label of a list of detections: that of its first confident
\* in_city or on_map detection
ViewOf(detections) ==
    LET Labelled(k) == /\ detections[k].class_name \in {"in_city", "on_map"}
                       /\ detections[k].confidence >= 70
    IN IF \E k \in 1..Len(detections) : Labelled(k)
       THEN LET first == CHOOSE k \in 1..Len(detections) :
                            Labelled(k) /\ \A j \in 1..(k - 1) : ~Labelled(j)
            IN IF detections[first].class_name = "in_city" THEN "city" ELSE "map"
       ELSE "unknown"

\* C14: if a task handler raises, execute_highest_priority_task does not
\* propagate the exception, the task's last_executed is unchanged, and the
\* loop goes on to the end of the cycle and the next cycle.
C14_HandlerExceptionIsCaught ==
    [][TasksStep =>
          \A k \in 1..Len(call'.invoked) :
              call'.invoked[k].outcome = "raise" =>
                  /\ call'.ret \in {"True", "False"}
                  /\ task_manager'.tasks[call'.invoked[k].index].last_executed
                        = task_manager.tasks[call'.invoked[k].index].last_executed
                  /\ pc' = "save"]_vars

\* C15: in every cycle the task manager is invoked if and only if update()
\* returned false in that cycle, after it, and with the detections and the
\* view label that update() obtained; a cycle in which the state machine
\* acted runs no task.
C15_TasksOnlyAfterIdleUpdate ==
    [][/\ UpdateStep => /\ call'.ret = "False" <=> pc' = "tasks"
                        /\ call'.ret = "True" => pc' = "save"
       /\ (pc = "tasks" /\ call'.name # "stop") =>
             /\ TasksStep
             /\ call.name = "update"
             /\ call.ret = "False"
             /\ call'.detections = call.screen
             /\ call'.game_view = ViewOf(call.screen)
       /\ call'.name = "execute_highest_priority_task" => pc = "tasks"]_vars

\* update() found the city and did nothing, and the task manager, called
\* with the detections of that update(), ran the quest handler on them
C15_Witness ==
    /\ call.name = "execute_highest_priority_task"
    /\ call.game_view = "city"
    /\ call.detections = <<Detection("in_city", 70),
        DetectionAt("main_quest_claimable", 70, 100, 200)>>
    /\ call.ret = "True"
    /\ call.invoked[1].name = "collect_quests"
    /\ context.current_state = "CityViewState"
    /\ pc = "save"

(***************************************************************************)
(* The state machine, update() called again and again                      *)
(***************************************************************************)
\* the detections update() can get
MachineScreens ==
    { <<>>,
      <<Detection("click_arrow", 50)>>,
      <<Detection("in_city", 65)>>,
      <<Detection("in_city", 70)>>,
      <<Detection("on_map", 70)>>,
      <<Detection("on_map", 70), Detection("in_city", 70)>>,
      <<Detection("on_map", 70), Detection("return_to_city_button", 70)>>,
      <<Detection("new_feature_unlock", 70)>>,
      <<Detection("new_feature_unlock", 65), Detection("in_city", 70)>>,
      <<Detection("new_feature_unlock", 70), Detection("on_map", 70)>>,
      <<Detection("click_arrow", 50), Detection("new_feature_unlock", 70)>>,
      <<Detection("click_arrow", 70), Detection("click_target", 70)>>,
      <<Detection("counselor text bubble", 70), Detection("in_city", 70)>>,
      <<Detection("upgrade_complete", 70)>>,
      <<Detection("upgrade_complete", 70), Detection("counselor text bubble", 70)>>,
      <<Detection("click_target", 70)>>,
      <<Detection("tutorial_complete", 70)>>,
      <<Detection("china", 70), Detection("rome", 50), Detection("egypt", 50)>>,
      <<Detection("build_archery_range", 70), Detection("build_confirm_button", 70),
        Detection("build_reject_button", 70)>> }

\* a state machine as create_state_machine returns it, as run_tutorial sets
\* it up (TutorialState, tutorial not completed), and as main() has it in the
\* gameplay loop (tutorial completed)
MachineInit ==
    /\ tree_clearing = tree_clearing_at_import
    /\ \/ /\ context = GameStateContext
          /\ instance_state = InstanceState
       \/ /\ context = [GameStateContext EXCEPT !.current_state = "TutorialState"]
          /\ instance_state = InstanceState
       \/ /\ context = GameStateContext
          /\ instance_state = [InstanceState EXCEPT !.tutorial_completed = TRUE]
    /\ now = 0
    /\ call = NoCall
    /\ task_manager = TaskManager
    /\ pc = "update"
    /\ state_file = no_file

\* one call of update()
MachineUpdate ==
    /\ \E detections \in MachineScreens, accepted \in SUBSET TapKinds :
          LET r == update(context, instance_state, detections, accepted) IN
          /\ context' = r.context
          /\ instance_state' = r.instance_state
          /\ call' = [name |-> "update", prior |-> context.current_state,
                      ledger |-> instance_state,
                      screen |-> detections, accepted |-> accepted,
                      ret |-> IF r.ret THEN "True" ELSE "False", taps |-> r.taps,
                      preempted |-> r.preempted, popup_taps |-> r.popup_taps,
                      resolved |-> r.resolved, executed |-> r.executed]
    /\ UNCHANGED <<now, task_manager, pc, state_file, tree_clearing>>

MachineNext == MachineUpdate

MachineSpec == MachineInit /\ [][MachineNext]_vars

(***************************************************************************)
(* Properties of the state machine                                         *)
(***************************************************************************)
\* a step that is one call of update()
MachineStep == call'.name = "update"

\* some detection of one of the classes has confidence 0.7 or more
ConfidentIn(detections, classes) ==
    \E k \in 1..Len(detections) :
        detections[k].class_name \in classes /\ detections[k].confidence >= 70

TutorialTriggers ==
    {"click_arrow", "click_target", "counselor text bubble", "upgrade_complete"}

\* the tutorial pre-empts the cycle: the tutorial is not completed and a
\* confident tutorial trigger is detected
TutorialPreemption(s, detections) ==
    ~s.tutorial_completed /\ ConfidentIn(detections, TutorialTriggers)

\* C16: in a cycle where tutorial_completed is false and the detections
\* include a confident tutorial trigger, update() makes Tutorial the current
\* state whatever the prior state and returns the result of executing it,
\* without popup dismissal or view resolution.
C16_TutorialPreempts ==
    [][(MachineStep /\ TutorialPreemption(instance_state, call'.screen)) =>
          LET e == TutorialState_execute(call'.screen, instance_state, call'.accepted)
          IN /\ call'.executed = "TutorialState"
             /\ call'.popup_taps = <<>>
             /\ ~call'.resolved
             /\ call'.ret = (IF e.ret THEN "True" ELSE "False")
             /\ call'.taps = e.taps
             /\ context'.current_state = e.current_state
             /\ instance_state' = e.instance_state]_vars

\* from CityView, with the tutorial not completed, a confident counselor
\* text bubble made the machine execute Tutorial and tap the bubble
C16_Witness ==
    /\ call.name = "update"
    /\ call.prior = "CityViewState"
    /\ call.executed = "TutorialState"
    /\ call.screen = <<Detection("counselor text bubble", 70), Detection("in_city", 70)>>
    /\ call.taps = <<"counselor text bubble">>
    /\ context.current_state = "TutorialState"
    /\ ~instance_state.tutorial_completed

\* the detections of confidence 0.7 or more
Trusted(detections) == SelectSeq(detections, LAMBDA d : d.confidence >= 70)

\* C17: a detection below the 0.7 threshold never causes a state transition,
\* a tap or a ledger change: update() does on a list of detections what it
\* does on the detections of that list that reach the threshold, and on a
\* list all below the threshold what it does on no detections.
C17_UntrustedDetectionsIgnored ==
    [][MachineStep =>
          LET r == update(context, instance_state, Trusted(call'.screen), call'.accepted)
          IN /\ context'.current_state = r.context.current_state
             /\ instance_state' = r.instance_state
             /\ call'.taps = r.taps
             /\ call'.ret = (IF r.ret THEN "True" ELSE "False")]_vars

\* C18: when the tutorial does not pre-empt the cycle, a confident
\* new_feature_unlock makes update() tap the fixed dismiss point in every
\* state; if the tap succeeds update() returns true at once, the state's
\* behaviour not executed and the current state unchanged.
C18_PopupDismissed ==
    [][(/\ MachineStep
        /\ ~TutorialPreemption(instance_state, call'.screen)
        /\ ConfidentIn(call'.screen, {"new_feature_unlock"})) =>
          /\ call'.taps # <<>>
          /\ call'.taps[1] = "home"
          /\ "home" \in call'.accepted =>
                /\ call'.ret = "True"
                /\ call'.taps = <<"home">>
                /\ call'.executed = "none"
                /\ context'.current_state = context.current_state
                /\ instance_state' = instance_state]_vars

\* update() gets as far as resolving the state from the view: the tutorial
\* branch is not taken and no popup is dismissed
ReachesResolution(s, detections, accepted) ==
    /\ \/ s.tutorial_completed
       \/ \A k \in 1..Len(detections) : detections[k].class_name \notin TutorialTriggers
    /\ ~(ConfidentIn(detections, {"new_feature_unlock"}) /\ "home" \in accepted)

\* C19: when update() reaches the resolution step in state Unknown, the
\* state becomes CityView if the view label is city, MapView if it is map,
\* and otherwise is still Unknown at the end of the cycle; the view label
\* never changes the state when the current state is not Unknown.
C19_ViewResolvesUnknownOnly ==
    [][(MachineStep /\ ReachesResolution(instance_state, call'.screen, call'.accepted)) =>
          LET view == ViewOf(call'.screen) IN
          IF context.current_state = "UnknownState"
          THEN /\ view = "city" => call'.executed = "CityViewState"
               /\ view = "map" => call'.executed = "MapViewState"
               /\ view \notin {"city", "map"} =>
                     /\ call'.executed = "UnknownState"
                     /\ context'.current_state = "UnknownState"
          ELSE /\ call'.executed = context.current_state
               /\ ~call'.resolved]_vars

\* from Unknown, the view being the map, the machine executed MapView
C19_Witness ==
    /\ call.name = "update"
    /\ call.prior = "UnknownState"
    /\ call.resolved
    /\ context.game_view = "map"
    /\ call.executed = "MapViewState"
    /\ context.current_state = "MapViewState"

\* C20: from Unknown, a cycle with a confident in_city detection, no
\* tutorial pre-emption and no popup ends in CityView, and update() returns
\* true for that cycle.
C20_CityFoundIsAction ==
    [][(/\ MachineStep
        /\ context.current_state = "UnknownState"
        /\ ConfidentIn(call'.screen, {"in_city"})
        /\ ReachesResolution(instance_state, call'.screen, call'.accepted)
        /\ ~ConfidentIn(call'.screen, {"new_feature_unlock"})) =>
          /\ context'.current_state = "CityViewState"
          /\ call'.ret = "True"]_vars

\* C21: in MapView the state changes to CityView only in a cycle where a
\* confident return_to_city_button was detected and the tap on it succeeded,
\* and update() then returns true; with no such control, or every tap on it
\* failing, the state remains MapView and the execution returns false.
C21_MapViewLeftByButton ==
    [][(MachineStep /\ context.current_state = "MapViewState"
                    /\ call'.executed = "MapViewState") =>
          /\ instance_state' = instance_state
          /\ IF /\ ConfidentIn(call'.screen, {"return_to_city_button"})
                /\ "detection" \in call'.accepted
             THEN /\ context'.current_state = "CityViewState"
                  /\ call'.ret = "True"
             ELSE /\ context'.current_state = "MapViewState"
                  /\ call'.ret = "False"]_vars

\* in MapView the button was seen and tapped, and the machine is in CityView
C21_Witness ==
    /\ call.name = "update"
    /\ call.prior = "MapViewState"
    /\ call.executed = "MapViewState"
    /\ call.taps = <<"return_to_city_button">>
    /\ "detection" \in call.accepted
    /\ call.ret = "True"
    /\ context.current_state = "CityViewState"

\* the first detection of the list is a confident one of the class
FirstIs(detections, class_name) ==
    /\ detections # <<>>
    /\ detections[1].class_name = class_name
    /\ detections[1].confidence >= 70

\* C22: with tutorial_completed false and tutorial_upgrade_complete_clicked
\* unset, a cycle whose detections are a confident upgrade_complete and
\* whose tap succeeds sets the flag, and update() returns true.
C22_UpgradeCompleteSetsFlag ==
    [][(/\ MachineStep
        /\ ~instance_state.tutorial_completed
        /\ ~instance_state.tutorial_upgrade_complete_clicked
        /\ FirstIs(call'.screen, "upgrade_complete")
        /\ "center" \in call'.accepted) =>
          /\ instance_state'.tutorial_upgrade_complete_clicked
          /\ call'.ret = "True"
          /\ call'.taps = <<"center">>]_vars

\* the notification was tapped at the centre and the flag went from unset
\* to set
C22_Witness ==
    /\ call.name = "update"
    /\ ~call.ledger.tutorial_completed
    /\ ~call.ledger.tutorial_upgrade_complete_clicked
    /\ call.screen = <<Detection("upgrade_complete", 70)>>
    /\ call.taps = <<"center">>
    /\ call.ret = "True"
    /\ instance_state.tutorial_upgrade_complete_clicked

\* C23: with tutorial_upgrade_complete_clicked set and
\* tutorial_final_arrow_clicked unset, a cycle whose detections contain a
\* confident click_target, with or without a click_arrow, taps the target
\* and, the tap succeeding, sets tutorial_final_arrow_clicked.
C23_AnyTargetSetsFinalFlag ==
    [][(/\ MachineStep
        /\ ~instance_state.tutorial_completed
        /\ instance_state.tutorial_upgrade_complete_clicked
        /\ ~instance_state.tutorial_final_arrow_clicked
        /\ ConfidentIn(call'.screen, {"click_target"})
        /\ \A k \in 1..Len(call'.screen) :
              call'.screen[k].class_name \in {"click_target", "click_arrow"}
        /\ "detection" \in call'.accepted) =>
          /\ call'.taps = <<"click_target">>
          /\ instance_state'.tutorial_final_arrow_clicked]_vars

\* C24: at the end of every update() call, tutorial_upgrade_complete_clicked
\* and tutorial_final_arrow_clicked both true implies tutorial_completed.
C24_CompletionWithBothFlags ==
    call.name = "update" =>
        ((/\ instance_state.tutorial_upgrade_complete_clicked
          /\ instance_state.tutorial_final_arrow_clicked)
            => instance_state.tutorial_completed)

\* the archery range build screen, as the claim describes it
BuildEndScreen(detections) ==
    /\ ConfidentIn(detections, {"build_archery_range"})
    /\ ConfidentIn(detections, {"build_confirm_button"})
    /\ ConfidentIn(detections, {"build_reject_button"})
    /\ ~ConfidentIn(detections, {"click_arrow", "click_target"})

\* the taps of the call that adb accepted
SucceededTaps(c) ==
    {k \in 1..Len(c.taps) : tap_kind(c.taps[k]) \in c.accepted}

\* C25: in Tutorial, when the detections contain a confident
\* build_archery_range, build_confirm_button and build_reject_button and no
\* confident click_arrow or click_target, and the tap on the confirm control
\* succeeds (no other tap of the cycle having succeeded before it),
\* tutorial_completed becomes true and the state becomes CityView in that
\* cycle, whatever the two flags.
C25_BuildScreenEndsTutorial ==
    [][(/\ MachineStep
        /\ call'.executed = "TutorialState"
        /\ BuildEndScreen(call'.screen)
        /\ "detection" \in call'.accepted
        /\ \A k \in SucceededTaps(call') : call'.taps[k] = "build_confirm_button") =>
          /\ instance_state'.tutorial_completed
          /\ context'.current_state = "CityViewState"
          /\ call'.ret = "True"]_vars

\* with the first flag set and the second unset, the confirm control of the
\* build screen was tapped and the tutorial is completed, in CityView
C25_Witness ==
    /\ call.name = "update"
    /\ call.executed = "TutorialState"
    /\ call.ledger.tutorial_upgrade_complete_clicked
    /\ ~call.ledger.tutorial_final_arrow_clicked
    /\ ~call.ledger.tutorial_completed
    /\ BuildEndScreen(call.screen)
    /\ call.taps = <<"build_confirm_button">>
    /\ instance_state.tutorial_completed
    /\ context.current_state = "CityViewState"

\* the cycle acts without a tap: both flags were set, or the detections
\* say the tutorial is complete
ActsWithoutTap(s, c) ==
    /\ c.executed = "TutorialState"
    /\ \/ s.tutorial_upgrade_complete_clicked /\ s.tutorial_final_arrow_clicked
       \/ ConfidentIn(c.screen, {"tutorial_complete"})

\* C26: a tap reported as failed is no action for that step in every state:
\* in a cycle none of whose taps succeeds the two flags are unchanged and,
\* unless the cycle acts without a tap, the ledger and the executed state
\* are unchanged and update() returns false; update() always returns a
\* boolean.
C26_FailedTapIsNoAction ==
    [][MachineStep =>
          /\ call'.ret \in {"True", "False"}
          /\ SucceededTaps(call') = {} =>
                /\ instance_state'.tutorial_upgrade_complete_clicked
                      = instance_state.tutorial_upgrade_complete_clicked
                /\ instance_state'.tutorial_final_arrow_clicked
                      = instance_state.tutorial_final_arrow_clicked
                /\ ~ActsWithoutTap(instance_state, call') =>
                      /\ call'.ret = "False"
                      /\ instance_state' = instance_state
                      /\ context'.current_state = call'.executed]_vars

\* in Tutorial the tap on the notification failed, then the tap on the
\* bubble failed: nothing was set and update() returned false
C26_Witness ==
    /\ call.name = "update"
    /\ call.executed = "TutorialState"
    /\ call.taps = <<"center", "counselor text bubble">>
    /\ call.accepted = {}
    /\ call.ret = "False"
    /\ instance_state = call.ledger
    /\ context.current_state = "TutorialState"

MaxCursor == 3

\* BuildingPositions() with the main farm found (update_main_building_position)
building_positions ==
    [name \in {"farm", "quarry", "lumber_mill", "goldmine", "hospital"} |->
        IF name = "farm" THEN [x |-> 120, y |-> 300] ELSE [x |-> 0, y |-> 0]]

\* state files that save_instance_state did not write: no JSON, the
\* snapshot of another instance only, a null snapshot, the snapshot of a
\* version that knew fewer fields, a snapshot without id, and one whose
\* report time is no date
ForeignFiles ==
    { not_json,
      json_file([id \in {"instance2"} |->
                    json_object(to_dict(InstanceState_new("instance2", device_id)))]),
      json_file([id \in {args_instance} |-> json_null]),
      json_file([id \in {args_instance} |->
                    json_object([id |-> args_instance, device_id |-> "emulator-5556",
                                 tutorial_completed |-> TRUE, city_hall_level |-> 2])]),
      json_file([id \in {args_instance} |->
                    json_object([device_id |-> device_id, tutorial_completed |-> TRUE])]),
      json_file([id \in {args_instance} |->
                    json_object([id |-> args_instance, device_id |-> device_id,
                                 tutorial_completed |-> TRUE,
                                 last_report_time |-> not_iso])]) }

\* a process that found no state file
PersistInit ==
    /\ tree_clearing = tree_clearing_at_import
    /\ instance_state = load_instance_state(no_file, args_instance, device_id)
    /\ state_file = no_file
    /\ now = 0
    /\ call = NoCall
    /\ task_manager = TaskManager
    /\ context = GameStateContext
    /\ pc = "update"

PersistTick ==
    /\ \E t \in ClockInstants : t > now /\ now' = t
    /\ call' = NoCall
    /\ UNCHANGED <<instance_state, loop_vars>>

\* run_tutorial, completing: it stores the preferred civilization in the
\* ledger object
PersistRunTutorial ==
    /\ ~instance_state.tutorial_completed
    /\ instance_state' =
          [instance_state @@ [preferred_civilization |-> preferred_civ]
              EXCEPT !.tutorial_upgrade_complete_clicked = TRUE,
                     !.tutorial_final_arrow_clicked = TRUE,
                     !.tutorial_completed = TRUE]
    /\ call' = [name |-> "run_tutorial"]
    /\ UNCHANGED <<now, loop_vars>>

\* main() with --skip-tutorial
PersistSkipTutorial ==
    /\ ~instance_state.tutorial_completed
    /\ instance_state' = [instance_state EXCEPT !.tutorial_completed = TRUE]
    /\ call' = [name |-> "skip_tutorial"]
    /\ UNCHANGED <<now, loop_vars>>

\* update_main_building_position, on the first farm found
PersistBuildingPosition ==
    /\ "building_positions" \notin DOMAIN instance_state
    /\ instance_state' = instance_state @@ [building_positions |-> building_positions]
    /\ call' = [name |-> "update_main_building_position"]
    /\ UNCHANGED <<now, loop_vars>>

\* the build handler completing or skipping the current task
PersistProgress ==
    /\ instance_state.current_task_index < MaxCursor
    /\ \/ instance_state' = mark_current_task_completed(instance_state)
       \/ instance_state' = skip_current_task(instance_state, 10, now)
    /\ call' = [name |-> "handle_build_order"]
    /\ UNCHANGED <<now, loop_vars>>

\* save_instance_state at the end of a cycle
PersistSave ==
    /\ state_file' = save_instance_state(state_file, args_instance, instance_state)
    /\ call' = [name |-> "save_instance_state"]
    /\ UNCHANGED <<instance_state, now, task_manager, context, pc, tree_clearing>>

\* the state file is replaced from outside the process
PersistForeignFile ==
    /\ state_file' \in ForeignFiles
    /\ call' = [name |-> "foreign_file"]
    /\ UNCHANGED <<instance_state, now, task_manager, context, pc, tree_clearing>>

\* the process restarts: load_instance_state
PersistLoad ==
    /\ instance_state' = load_instance_state(state_file, args_instance, device_id)
    /\ call' = [name |-> "load_instance_state", instance_id |-> args_instance]
    /\ UNCHANGED <<now, loop_vars>>

\* from_dict applied to to_dict of the ledger
PersistRoundTrip ==
    /\ call' = [name |-> "round_trip", original |-> instance_state,
                result |-> from_dict(to_dict(instance_state))]
    /\ UNCHANGED <<instance_state, now, loop_vars>>

PersistNext ==
    \/ PersistTick
    \/ PersistRunTutorial
    \/ PersistSkipTutorial
    \/ PersistBuildingPosition
    \/ PersistProgress
    \/ PersistSave
    \/ PersistForeignFile
    \/ PersistLoad
    \/ PersistRoundTrip

PersistSpec == PersistInit /\ [][PersistNext]_vars

\* C27: serializing a ledger with to_dict and deserializing the result with
\* from_dict yields a ledger equal to the original in every field, for
\* every ledger.
C27_RoundTrip ==
    call.name = "round_trip" => call.result = call.original

\* a step that loads the ledger of the instance from a stored snapshot
LoadStep ==
    /\ call'.name = "load_instance_state"
    /\ state_file.exists /\ state_file.json
    /\ args_instance \in DOMAIN state_file.states
    /\ state_file.states[args_instance].json = "object"

\* the progress a ledger records
progress_fields ==
    {"tutorial_completed", "tutorial_upgrade_complete_clicked",
     "tutorial_final_arrow_clicked", "city_hall_level", "current_task_index"}

\* C28: reloading a snapshot that contains unknown fields or lacks some
\* fields keeps the stored value of the known fields and defaults the rest:
\* the stored tutorial flags, completed tasks and cursor are not discarded.
C28_ReloadKeepsProgress ==
    [][LoadStep =>
          LET stored == state_file.states[args_instance].members IN
          /\ \A key \in progress_fields \cap DOMAIN stored :
                instance_state'[key] = stored[key]
          /\ \A key \in progress_fields \ DOMAIN stored :
                instance_state'[key] = InstanceState[key]
          /\ ("building_tasks" \in DOMAIN stored /\ stored.building_tasks # <<>>) =>
                /\ Len(instance_state'.building_tasks) = Len(stored.building_tasks)
                /\ \A i \in 1..Len(stored.building_tasks) :
                      instance_state'.building_tasks[i].completed
                         = stored.building_tasks[i].completed]_vars

\* the snapshot is one from_dict can build a ledger from
Deserializable(data) ==
    /\ DOMAIN data \subseteq dataclass_fields
    /\ required_fields \subseteq DOMAIN data
    /\ "building_tasks" \in DOMAIN data =>
          \A i \in 1..Len(data.building_tasks) :
              /\ DOMAIN data.building_tasks[i] \subseteq build_task_fields
              /\ build_task_required \subseteq DOMAIN data.building_tasks[i]

\* C29: if the stored snapshot of the requested instance cannot be
\* deserialized, load_instance_state returns a fresh ledger for that
\* instance id: its id the requested one, every progress flag false, the
\* default build queue installed and cursor 0.
C29_FreshLedgerOnBadSnapshot ==
    [][(LoadStep /\ ~Deserializable(state_file.states[args_instance].members)) =>
          /\ instance_state'.id = args_instance
          /\ ~instance_state'.tutorial_completed
          /\ ~instance_state'.tutorial_upgrade_complete_clicked
          /\ ~instance_state'.tutorial_final_arrow_clicked
          /\ instance_state'.building_tasks = default_build_queue
          /\ instance_state'.current_task_index = 0]_vars

(***************************************************************************)
(* Several processes, each running main() with its own --instance, on one  *)
(* state file                                                              *)
(***************************************************************************)
\* the instance each process drives, and its device
instances == {"instance1", "instance2"}

device_of(instance_id) ==
    IF instance_id = "instance1" THEN "emulator-5554" ELSE "emulator-5556"

\* every process found no state file when it started; instance_state holds
\* the ledger object of each process
ShareInit ==
    /\ tree_clearing = tree_clearing_at_import
    /\ instance_state =
          [i \in instances |-> load_instance_state(no_file, i, device_of(i))]
    /\ state_file = no_file
    /\ now = 0
    /\ call = NoCall
    /\ task_manager = TaskManager
    /\ context = GameStateContext
    /\ pc = "update"

\* main() with --skip-tutorial in one process
ShareSkipTutorial ==
    \E i \in instances :
        /\ ~instance_state[i].tutorial_completed
        /\ instance_state' =
              [instance_state EXCEPT ![i].tutorial_completed = TRUE]
        /\ call' = [name |-> "skip_tutorial", instance_id |-> i]
        /\ UNCHANGED <<now, loop_vars>>

\* the build handler of one process completing the current task
ShareProgress ==
    \E i \in instances :
        /\ instance_state[i].current_task_index < MaxCursor
        /\ instance_state' =
              [instance_state EXCEPT
                  ![i] = mark_current_task_completed(instance_state[i])]
        /\ call' = [name |-> "handle_build_order", instance_id |-> i]
        /\ UNCHANGED <<now, loop_vars>>

\* one process ends a cycle: save_instance_state(args.state,
\* {args.instance: state_machine.instance_state})
ShareSave ==
    \E i \in instances :
        /\ state_file' = save_instance_state(state_file, i, instance_state[i])
        /\ call' = [name |-> "save_instance_state", instance_id |-> i]
        /\ UNCHANGED <<instance_state, now, task_manager, context, pc, tree_clearing>>

\* one process restarts: load_instance_state
ShareLoad ==
    \E i \in instances :
        /\ instance_state' =
              [instance_state EXCEPT
                  ![i] = load_instance_state(state_file, i, device_of(i))]
        /\ call' = [name |-> "load_instance_state", instance_id |-> i]
        /\ UNCHANGED <<now, loop_vars>>

ShareNext ==
    \/ ShareSkipTutorial
    \/ ShareProgress
    \/ ShareSave
    \/ ShareLoad

ShareSpec == ShareInit /\ [][ShareNext]_vars

\* the snapshots a state file holds, by instance id
snapshots(file) == IF file.exists /\ file.json THEN file.states ELSE <<>>

\* C31: when several processes, each driving a different instance id, share
\* one state file, a save by one process changes only its own instance's
\* entry: the snapshot every other instance's process saved last is still in
\* the file after the save.
C31_SaveKeepsOtherInstances ==
    [][call'.name = "save_instance_state" =>
          \A j \in DOMAIN snapshots(state_file) \ {call'.instance_id} :
              /\ j \in DOMAIN snapshots(state_file')
              /\ snapshots(state_file')[j] = snapshots(state_file)[j]]_vars

(***************************************************************************)
(* The vision collaborator failing in a cycle                              *)
(***************************************************************************)
\* every attempt of the cycle failed: no screenshot, or no response
VisionFails(attempts) ==
    /\ Len(attempts) = max_attempts
    /\ \A i \in 1..Len(attempts) : ~attempts[i].screenshot \/ ~attempts[i].response

\* C32: if the vision collaborator fails in a cycle (every screenshot or
\* detection attempt fails), the failure is absorbed: update() works on an
\* empty detection list, raises nothing, and the loop goes on with the cycle.
C32_VisionFailureAbsorbed ==
    [][(UpdateStep /\ VisionFails(call'.attempts)) =>
          /\ call'.ret # "Exception"
          /\ call'.screen = <<>>
          /\ context'.detections = <<>>
          /\ pc' \in {"tasks", "save"}]_vars

(***************************************************************************)
(* The quest handler on the detections of a cycle                          *)
(***************************************************************************)
\* how many detections of quest classes a screen of the model has
MaxQuestDetections == 3

\* the quest detections a screen can have: main quests, the quests
\* indicator and the side quest indicator, confident or not
QuestDetections ==
    { DetectionAt("main_quest_claimable", 90, 100, 200),
      DetectionAt("main_quest_claimable", 70, 100, 300),
      DetectionAt("main_quest_claimable", 65, 100, 400),
      DetectionAt("quests_claimable", 70, 300, 100),
      DetectionAt("quests_claimable", 65, 300, 500),
      DetectionAt("side_quest_claimable", 70, 320, 180),
      DetectionAt("side_quest_claimable", 65, 320, 580) }

QuestScreens ==
    UNION { [1..n -> QuestDetections] : n \in 0..MaxQuestDetections }

\* the task configurations: that of create_default_tasks, and main quests only
TaskConfigs == { TaskConfig(only) : only \in BOOLEAN }

QuestInit ==
    /\ tree_clearing = tree_clearing_at_import
    /\ instance_state = [InstanceState EXCEPT !.tutorial_completed = TRUE]
    /\ now = 0
    /\ call = NoCall
    /\ task_manager = default_task_manager
    /\ context = GameStateContext
    /\ pc = "tasks"
    /\ state_file = no_file

\* the task manager runs handle_collect_quests on the detections of the cycle
QuestHandle ==
    /\ \E detections \in QuestScreens, config \in TaskConfigs,
          accepted \in SUBSET {"detection"} :
          LET r == handle_collect_quests(detections, 1, config, accepted, <<>>)
          IN call' = [name |-> "handle_collect_quests", detections |-> detections,
                      config |-> config, accepted |-> accepted,
                      ret |-> r.ret, taps |-> r.taps]
    /\ UNCHANGED <<instance_state, now, loop_vars>>

QuestNext == QuestHandle

QuestSpec == QuestInit /\ [][QuestNext]_vars

QuestStep == call'.name = "handle_collect_quests"

\* the first confident detection of a class in a list that has one
FirstConfident(detections, class_name) ==
    LET Is(k) == detections[k].class_name = class_name /\ is_confident(detections[k])
    IN detections[CHOOSE k \in 1..Len(detections) :
                      Is(k) /\ \A j \in 1..(k - 1) : ~Is(j)]

\* C33: whenever the detections contain a confident main_quest_claimable and
\* taps succeed, the quest handler taps at the coordinates of the first such
\* detection and returns true, whatever other detections are present and
\* wherever they are in the list.
C33_MainQuestTappedFirst ==
    [][(/\ QuestStep
        /\ confident_of(call'.detections, "main_quest_claimable")
        /\ "detection" \in call'.accepted) =>
          LET first == FirstConfident(call'.detections, "main_quest_claimable")
          IN /\ call'.ret = "True"
             /\ call'.taps = <<[x |-> first.x, y |-> first.y]>>]_vars

\* the points 78 below the quests_claimable detections of a list
SideQuestPoints(detections) ==
    { [x |-> detections[k].x, y |-> detections[k].y + 78] :
        k \in { j \in 1..Len(detections) :
                  detections[j].class_name = "quests_claimable" } }

\* C34: the quest handler taps the side-quest position (78 below a confident
\* quests_claimable indicator) only when a confident side_quest_claimable is
\* in the same detection list and claim_only_main_quest is false; with a
\* quests_claimable indicator but no side_quest_claimable and no
\* main_quest_claimable it taps nothing and returns false.
C34_SideQuestOnlyWithIndicator ==
    [][QuestStep =>
          /\ (\E k \in 1..Len(call'.taps) :
                 call'.taps[k] \in SideQuestPoints(call'.detections)) =>
                /\ confident_of(call'.detections, "side_quest_claimable")
                /\ ~call'.config.claim_only_main_quest
          /\ (/\ confident_of(call'.detections, "quests_claimable")
              /\ ~confident_of(call'.detections, "side_quest_claimable")
              /\ ~confident_of(call'.detections, "main_quest_claimable")) =>
                /\ call'.taps = <<>>
                /\ call'.ret = "False"]_vars

\* the handler tapped the side-quest position and returned true; it found the
\* indicator alone and did nothing
C34_Witness ==
    /\ call.name = "handle_collect_quests"
    /\ call.detections = <<DetectionAt("side_quest_claimable", 70, 320, 180),
                           DetectionAt("quests_claimable", 70, 300, 100)>>
    /\ ~call.config.claim_only_main_quest
    /\ call.taps = <<[x |-> 300, y |-> 178]>>
    /\ call.ret = "True"

(***************************************************************************)
(* Completed tasks and the dispatch of the task at the cursor              *)
(***************************************************************************)
\* C35: a build task that is already marked completed is never dispatched
\* again: whenever handle_build_order dispatches the task at the cursor, the
\* completed flag of that task is false.
C35_CompletedNeverDispatched ==
    [][call'.name = "handle_build_order" =>
          \A k \in 1..Len(call'.dispatched) :
              LET index == call'.dispatched[k].index
              IN instance_state.building_tasks # <<>> =>
                    ~instance_state.building_tasks[index + 1].completed]_vars

(***************************************************************************)
(* The two flags of the end of the tutorial                                *)
(***************************************************************************)
\* C36: flag B is never set before flag A: in every reachable state of the
\* state machine, tutorial_final_arrow_clicked implies
\* tutorial_upgrade_complete_clicked.
C36_FinalArrowAfterUpgradeComplete ==
    instance_state.tutorial_final_arrow_clicked =>
        instance_state.tutorial_upgrade_complete_clicked

\* the final arrow was tapped in the tutorial, after the upgrade notification
C36_Witness ==
    /\ call.name = "update"
    /\ call.executed = "TutorialState"
    /\ call.ledger.tutorial_upgrade_complete_clicked
    /\ ~call.ledger.tutorial_final_arrow_clicked
    /\ instance_state.tutorial_final_arrow_clicked

\* C37: flag A (tutorial_upgrade_complete_clicked) changes from false to true
\* only in an update() whose detections contain a confident upgrade_complete
\* and whose tap on the centre of the screen succeeded; no other detection
\* class sets it.
C37_OnlyUpgradeCompleteSetsFlag ==
    [][(/\ MachineStep
        /\ ~instance_state.tutorial_upgrade_complete_clicked
        /\ instance_state'.tutorial_upgrade_complete_clicked) =>
          /\ confident_of(call'.screen, "upgrade_complete")
          /\ "center" \in call'.accepted
          /\ \E k \in 1..Len(call'.taps) : call'.taps[k] = "center"]_vars

\* C38: once tutorial_completed is true and the current state is CityView,
\* the current state is CityView after every later update(), whatever the
\* detections and the view label are.
C38_CityViewStays ==
    [][(/\ MachineStep
        /\ instance_state.tutorial_completed
        /\ context.current_state = "CityViewState") =>
          context'.current_state = "CityViewState"]_vars

\* update() ran on a confident on_map detection with the state machine in
\* CityView and the tutorial completed, and left it in CityView
C38_Witness ==
    /\ call.name = "update"
    /\ call.prior = "CityViewState"
    /\ call.ledger.tutorial_completed
    /\ confident_of(call.screen, "on_map")
    /\ context.game_view = "map"
    /\ context.current_state = "CityViewState"

(***************************************************************************)
(* One process: main() from the loaded ledger through run_tutorial and the *)
(* startup tasks into the automation loop                                  *)
(***************************************************************************)
\* the screens an iteration of run_tutorial can get
TutorialRunScreens ==
    { <<>>,
      <<Detection("in_city", 70)>>,
      <<Detection("counselor text bubble", 70), Detection("in_city", 70)>>,
      <<Detection("click_arrow", 50), Detection("new_feature_unlock", 70)>>,
      <<Detection("upgrade_complete", 70)>>,
      <<Detection("click_arrow", 70), Detection("click_target", 70)>>,
      <<Detection("tutorial_complete", 70)>>,
      <<Detection("build_archery_range", 70), Detection("build_confirm_button", 70),
        Detection("build_reject_button", 70)>> }

\* main() after load_instance_state: a new ledger, the tutorial ahead, or
\* the ledger of an earlier run, the tutorial done and a task skipped
ProcessInit ==
    /\ tree_clearing = tree_clearing_at_import
    /\ \/ /\ instance_state = initialize_build_queue(InstanceState)
          /\ state_file = no_file
          /\ pc = "tutorial"
          /\ context = [GameStateContext EXCEPT !.current_state = "TutorialState"]
       \/ /\ instance_state =
                [Progress(initialize_build_queue(InstanceState),
                          Len(default_build_queue), {0})
                    EXCEPT !.tutorial_completed = TRUE]
          /\ state_file = saved(no_file, instance_state)
          /\ pc = "update"
          /\ context = GameStateContext
    /\ now = 0
    /\ call = NoCall
    /\ task_manager = default_task_manager

\* main() with --skip-tutorial: the tutorial is marked completed unplayed
ProcessSkipTutorial ==
    /\ pc = "tutorial"
    /\ call = NoCall
    /\ instance_state' = [instance_state EXCEPT !.tutorial_completed = TRUE]
    /\ call' = [name |-> "skip_tutorial"]
    /\ pc' = "startup"
    /\ UNCHANGED <<now, task_manager, context, state_file, tree_clearing>>

\* one iteration of run_tutorial: update() of the tutorial's state machine,
\* and the test of tutorial_completed after it
ProcessTutorial ==
    /\ pc = "tutorial"
    /\ \E detections \in TutorialRunScreens, accepted \in SUBSET TapKinds :
          LET r == update(context, instance_state, detections, accepted) IN
          /\ context' = r.context
          /\ instance_state' = r.instance_state
          /\ call' = [name |-> "run_tutorial", screen |-> detections,
                      taps |-> r.taps]
          /\ pc' = IF r.instance_state.tutorial_completed THEN "startup"
                   ELSE "tutorial"
    /\ UNCHANGED <<now, task_manager, state_file, tree_clearing>>

\* the state is saved after the tutorial, the startup tasks run, and main()
\* creates the state machine of the gameplay loop, or returns if they failed
ProcessStartup ==
    /\ pc = "startup"
    /\ state_file' = saved(state_file, instance_state)
    /\ \E startup_completed \in BOOLEAN :
          /\ call' = [name |-> "run_startup_tasks", ret |-> startup_completed]
          /\ pc' = IF startup_completed THEN "update" ELSE "exited"
    /\ context' = GameStateContext
    /\ UNCHANGED <<instance_state, now, task_manager, tree_clearing>>

ProcessNext ==
    \/ ProcessSkipTutorial
    \/ ProcessTutorial
    \/ ProcessStartup
    \/ CycleUpdate
    \/ CycleTasks
    \/ CycleSleep
    \/ CycleStop
    \/ CycleExit

ProcessSpec == ProcessInit /\ [][ProcessNext]_vars

\* C39: within one process the progress of the ledger is monotonic under
\* every step of the state machine and of the task manager: tutorial_completed,
\* flag A, flag B and the completed flag of every task never go from true to
\* false, and no task's skip counter decreases.
C39_ProgressMonotonic ==
    [][/\ instance_state.tutorial_completed => instance_state'.tutorial_completed
       /\ instance_state.tutorial_upgrade_complete_clicked
             => instance_state'.tutorial_upgrade_complete_clicked
       /\ instance_state.tutorial_final_arrow_clicked
             => instance_state'.tutorial_final_arrow_clicked
       /\ Len(instance_state'.building_tasks) >= Len(instance_state.building_tasks)
       /\ \A i \in 1..Len(instance_state.building_tasks) :
             /\ instance_state.building_tasks[i].completed
                   => instance_state'.building_tasks[i].completed
             /\ instance_state'.building_tasks[i].skipped_attempts
                   >= instance_state.building_tasks[i].skipped_attempts]_vars

\* the process played the tutorial through both flags and completed two
\* tasks of the queue in its loop
C39_Witness ==
    /\ call.name = "execute_highest_priority_task"
    /\ instance_state.tutorial_completed
    /\ instance_state.tutorial_upgrade_complete_clicked
    /\ instance_state.tutorial_final_arrow_clicked
    /\ instance_state.building_tasks[1].completed
    /\ instance_state.building_tasks[2].completed
    /\ instance_state.building_tasks[1].skipped_attempts = 0

(***************************************************************************)
(* The tree clearing loop of run_startup_tasks                             *)
(***************************************************************************)
\* the kinds of tap adb can accept or refuse in an attempt
TreeTapKinds == {"home", "tree", "harvest"}

\* what capture_and_detect gives a call of update() of the startup tasks:
\* the city, a popup over it, no detections after four failed requests, or
\* its exception after four failed screenshots
VisionOutcomes ==
    { capture_and_detect(attempts, 1, unbound) :
        attempts \in { <<detected(<<Detection("in_city", 70)>>)>>,
                       <<detected(<<Detection("new_feature_unlock", 70),
                                    Detection("in_city", 70)>>)>>,
                       [i \in 1..max_attempts |-> no_response],
                       [i \in 1..max_attempts |-> no_screenshot] } }

\* run_startup_tasks is entered with the tutorial completed and the trees
\* not cleared
TreeInit ==
    /\ tree_clearing = tree_clearing_at_import
    /\ instance_state = ledger_object([InstanceState EXCEPT !.tutorial_completed = TRUE])
    /\ now = 0
    /\ call = NoCall
    /\ task_manager = TaskManager
    /\ context = GameStateContext
    /\ pc = "startup"
    /\ state_file = no_file

\* --skip-tree-clearing: the trees are marked cleared without the loop
TreeSkip ==
    /\ pc = "startup"
    /\ instance_state' = [instance_state EXCEPT !.tree_clearing_completed = TRUE]
    /\ call' = [name |-> "skip_tree_clearing"]
    /\ pc' = "second_builder"
    /\ UNCHANGED <<now, task_manager, context, state_file, tree_clearing>>

\* the first update() of a fresh state machine, reset_tree_clearing() and
\* the locals of the loop
TreeStart ==
    /\ pc = "startup"
    /\ \E vision \in VisionOutcomes, accepted \in SUBSET TreeTapKinds :
          LET u == update(context, instance_state, vision.detections, accepted)
          IN IF vision.raises
             THEN /\ call' = [name |-> "update", ret |-> "Exception"]
                  /\ pc' = "exited"
                  /\ UNCHANGED <<instance_state, context, tree_clearing>>
             ELSE /\ call' = [name |-> "update", ret |-> "returned"]
                  /\ pc' = "tree_loop"
                  /\ instance_state' = u.instance_state
                  /\ context' = u.context
                  /\ tree_clearing' =
                        [reset_tree_clearing(tree_clearing)
                            EXCEPT !.tree_attempt_count = 0,
                                   !.tree_clearing_in_progress = TRUE]
    /\ UNCHANGED <<now, task_manager, state_file>>

\* one round of the while loop: clear_trees, the test of completion, and
\* update() for a fresh state if clear_trees returned False with trees left
TreeAttempt ==
    /\ pc = "tree_loop"
    /\ tree_clearing.tree_clearing_in_progress
    /\ tree_clearing.tree_attempt_count < max_tree_attempts
    /\ \E vision \in VisionOutcomes, accepted \in SUBSET TreeTapKinds :
          LET r == clear_trees(tree_clearing, instance_state, accepted)
              all_trees_cleared ==
                 \/ is_tree_clearing_complete(r.tree_clearing)
                 \/ r.instance_state.tree_clearing_completed
              fresh == ~all_trees_cleared /\ ~r.ret
              raised == fresh /\ vision.raises
              u == update(context, r.instance_state, vision.detections, accepted)
          IN /\ tree_clearing' =
                   [r.tree_clearing EXCEPT
                       !.tree_attempt_count = @ + 1,
                       !.tree_clearing_in_progress = ~all_trees_cleared,
                       !.processed =
                           IF r.tree = None THEN @
                           ELSE [@ EXCEPT ![r.tree] = @ + 1],
                       !.tap_failed = @ \/ r.failed]
             /\ instance_state' =
                   IF fresh /\ ~raised THEN u.instance_state ELSE r.instance_state
             /\ context' = IF fresh /\ ~raised THEN u.context ELSE context
             /\ pc' = IF raised THEN "exited" ELSE "tree_loop"
             /\ call' = [name |-> "clear_trees", ret |-> r.ret, tree |-> r.tree,
                         update |-> IF ~fresh THEN "none"
                                    ELSE IF raised THEN "Exception" ELSE "returned"]
    /\ UNCHANGED <<now, task_manager, state_file>>

\* the loop is left: the final check, and the save if the trees are cleared
TreeEnd ==
    /\ pc = "tree_loop"
    /\ ~(/\ tree_clearing.tree_clearing_in_progress
         /\ tree_clearing.tree_attempt_count < max_tree_attempts)
    /\ IF \/ is_tree_clearing_complete(tree_clearing)
          \/ instance_state.tree_clearing_completed
       THEN /\ state_file' = saved(state_file, instance_state)
            /\ call' = [name |-> "tree_clearing", ret |-> "completed"]
            /\ pc' = "second_builder"
       ELSE /\ call' = [name |-> "tree_clearing", ret |-> "failed"]
            /\ pc' = "exited"
            /\ UNCHANGED state_file
    /\ UNCHANGED <<instance_state, now, task_manager, context, tree_clearing>>

TreeNext ==
    \/ TreeSkip
    \/ TreeStart
    \/ TreeAttempt
    \/ TreeEnd

TreeSpec == TreeInit /\ [][TreeNext]_vars

\* C40: the tree clearing loop terminates within 30 attempts, and if every
\* tap succeeds it ends with tree_clearing_completed true after each of the
\* 19 tree coordinates has been processed exactly once.
C40_TreeClearingCompletes ==
    /\ tree_clearing.tree_attempt_count <= max_tree_attempts
    /\ (/\ pc \in {"second_builder", "exited"}
        /\ tree_clearing.tree_attempt_count > 0
        /\ ~tree_clearing.tap_failed) =>
          /\ instance_state.tree_clearing_completed
          /\ \A i \in 0..(Len(TREE_COORDINATES) - 1) : tree_clearing.processed[i] = 1

====
